---- MODULE Spec2Model ----
(***************************************************************************)
(* MultiSub browser wallet: the page-context provider (inject script), the *)
(* bridge (content script) and the privileged agent (background service    *)
(* worker), modelled as state machines.                                    *)
(*                                                                         *)
(*   SpecProvider / FairProvider : provider + bridge + agent whose message *)
(*                                 handlers do not overlap                 *)
(***************************************************************************)
EXTENDS Integers, Sequences, FiniteSets, TLC

(***************************************************************************)
(* Bounds of the model.                                                    *)
(***************************************************************************)
\* read-only request() calls the page makes on the provider (request protocol)
MaxRequests == 1
\* account and chain request() calls the page makes on the provider
MaxPageCalls == 2
\* actions the user takes in the wallet UI (popup)
MaxUi == 1
\* messages the window dispatches to its listeners
MaxDispatched == 5
\* messages the agent receives
MaxMessages == 3
\* calls of handleMessage under way at a time
MaxHandlers == 2
\* requests and wallet-UI actions of the two runs side by side
MaxTwinSteps == 3

(***************************************************************************)
(* Values.                                                                 *)
(***************************************************************************)
\* JavaScript null where an address is expected
NoAddr == "null"
\* JavaScript null where a chain-id string is expected
NoHex == << >>

\* Number.prototype.toString(base): the digits of n, most significant first
RECURSIVE Digits(_, _)
Digits(n, base) ==
    IF n < base THEN << n >> ELSE Append(Digits(n \div base, base), n % base)

\* parseInt(digits, base)
RECURSIVE ParseInt(_, _)
ParseInt(ds, base) ==
    IF Len(ds) = 0 THEN 0
    ELSE ParseInt(SubSeq(ds, 1, Len(ds) - 1), base) * base + ds[Len(ds)]

\* '0x' + n.toString(16): a chain-id string is modelled by its hex digits
ToHex(n) == Digits(n, 16)
ToDec(n) == Digits(n, 10)

\* chain ids of the first two default networks
ChainMainnet == 1
ChainPolygon == 137
\* a chain that is not among the stored networks until it is added
ChainOther == 10
DefaultNetworks == << ChainMainnet, ChainPolygon >>

\* chain-id strings a page passes to wallet_switchEthereumChain / wallet_addEthereumChain
\* ("0x1", "0x89", "0xa", and "0x01" with a leading zero)
HexInputs == { ToHex(ChainPolygon), ToHex(ChainOther) }

Addr0 == "0xA0"
Addr1 == "0xA1"
AddrSpoof == "0x5F"

SpoofOff == [enabled |-> FALSE, spoofedAddress |-> ""]
SpoofConfigs == { SpoofOff,
                  [enabled |-> TRUE, spoofedAddress |-> AddrSpoof],
                  [enabled |-> TRUE, spoofedAddress |-> ""] }

\* tokens that tell read-only RPC calls apart
RpcTokens == { 1, 2 }

\* payload of a message ({chainId} / {chainParams} / {method, params} / {index})
Payload(n, hex) == [n |-> n, hex |-> hex]
NoPayload == Payload(0, NoHex)

\* response data
Data(tag, n, s, b) == [tag |-> tag, n |-> n, s |-> s, b |-> b]
NoData == Data("undefined", 0, "", FALSE)
DataSpoof(c) == Data("spoof", 0, c.spoofedAddress, c.enabled)
DataNetwork(chain) == Data("network", chain, "", FALSE)
DataAccounts(a) == Data("accounts", 0, a, FALSE)
DataRpc(n) == Data("rpc", n, "", FALSE)

\* the {success, data} / {success:false, error} envelope
Ok(data) == [success |-> TRUE, data |-> data, error |-> ""]
Err(msg) == [success |-> FALSE, data |-> NoData, error |-> msg]
NoResp == [success |-> FALSE, data |-> NoData, error |-> "undefined"]

\* a message posted on the page's window; the type is its prefix and the rest
Msg(pfx, name, id, payload, response, config) ==
    [pfx |-> pfx, name |-> name, id |-> id, payload |-> payload,
     response |-> response, config |-> config]
Prefix == "MULTISUB_"
\* the id of a message that carries none
NoId == 0

VARIABLES
    p,            \* the EthereumProvider instance of the page
    windowMsgs,   \* messages posted on the window and not yet dispatched, oldest first
    agentInbox,   \* messages the bridge forwarded, whose response it awaits
    ag,           \* the agent: chrome.storage contents and walletInstance
    nRequests,    \* request() calls made so far
    nUi,          \* wallet-UI actions taken so far
    nDispatched,  \* window messages dispatched so far
    threads,      \* the calls of handleMessage under way
    answered,     \* history: the calls that have been answered
    pageSeen,     \* history: the responses the bridge posted to the page
    restarted,    \* the agent was recreated and no UNLOCK_WALLET has come since
    nMsgs,        \* messages the agent has received so far
    twin,         \* the provider and the agent of the second of two runs
    nTwin,        \* steps the two runs have taken
    wrap,         \* a transaction at the wrapping engine, and what became of it
    send,         \* a call of sendTransaction: its payload, its position, its transaction
    hid,          \* the signers in use and the transports of the hardware device
    store,        \* chrome.storage's networks and accounts, and the handlers working on them
    usb           \* one LedgerSigner, its calls under way and the transports they opened

providerVars == << p, windowMsgs, agentInbox, nRequests, nUi, nDispatched >>
agentVars == << threads, answered, pageSeen, restarted, nMsgs >>
twinVars == << twin, nTwin >>
lateVars == << store, usb >>
wrapVars == << wrap, send, hid, lateVars >>
vars == << p, windowMsgs, agentInbox, ag, nRequests, nUi, nDispatched,
           threads, answered, pageSeen, restarted, nMsgs, twin, nTwin, wrap,
           send, hid, store, usb >>

(***************************************************************************)
(* The page-context provider.                                              *)
(***************************************************************************)
createError(code, message) == [code |-> code, message |-> message]

\* The EIP-1193 codes the provider rejects with: a request that failed or timed
\* out, and a chain that is not available
RequestFailed == 4001
ChainNotAvailable == 4902
\* No error: the promise of request() has not been rejected
NoCode == 0

\* The continuation stored with a pending request: what awaits the promise
Cont(call, method, hex) == [call |-> call, method |-> method, hex |-> hex]

\* Map.set / Map.delete on the pending map (a function of its keys)
MapSet(m, k, v) == [i \in DOMAIN m \cup {k} |-> IF i = k THEN v ELSE m[i]]
MapDelete(m, k) == [i \in DOMAIN m \ {k} |-> m[i]]

\* A result of a provider operation: the new provider and the messages it posted
Res(q, post) == [p |-> q, post |-> post]

\* changes.addressSpoof.newValue when the key was removed from storage: undefined
NoSpoofConfig == [undefined |-> TRUE]

\* What request() is rejected with when reading a property of undefined throws:
\* a TypeError, which has no code
TypeError == -1

getDisplayAddress(q) ==
    IF q.spoofConfig.enabled /\ q.spoofConfig.spoofedAddress # ""
    THEN q.spoofConfig.spoofedAddress
    ELSE q.realAddress

\* for a mutant: no timeout is armed
sendMessage_NoTimer(q, type, payload, method, hex) ==
    LET id == q.requestId + 1
        call == Len(q.calls) + 1
    IN Res([q EXCEPT !.requestId = id,
                     !.pendingRequests = MapSet(@, id, Cont(call, method, hex)),
                     !.calls = Append(@, [id |-> id, type |-> type, payload |-> payload]),
                     !.settled = Append(@, << >>),
                     !.rejected = Append(@, NoCode)],
           { Msg(Prefix, type, id, payload, NoResp, SpoofOff) })

\* sendMessage(type, payload): a new id, the continuation stored under it, the
\* message posted, the 60 s timeout armed.  calls and settled are history: the
\* calls made, and for each the settlements of its promise.
sendMessage(q, type, payload, method, hex) ==
    LET id == q.requestId + 1
        call == Len(q.calls) + 1
    IN Res([q EXCEPT !.requestId = id,
                     !.pendingRequests = MapSet(@, id, Cont(call, method, hex)),
                     !.timers = @ \cup { [id |-> id, call |-> call] },
                     !.calls = Append(@, [id |-> id, type |-> type, payload |-> payload]),
                     !.settled = Append(@, << >>),
                     !.rejected = Append(@, NoCode)],
           { Msg(Prefix, type, id, payload, NoResp, SpoofOff) })

\* emit(event, ...): the listeners are the page's; the emissions are counted
emit(q, event) ==
    IF event = "accountsChanged"
    THEN [q EXCEPT !.accountsChangedCount = @ + 1]
    ELSE [q EXCEPT !.chainChangedCount = @ + 1]

\* A settlement of call c's promise, recorded: how, through the response tagged
\* via (NoId for the timeout), with what
Settlement(how, via, data, error) ==
    [how |-> how, via |-> via, data |-> data, error |-> error]

\* The code that awaits sendMessage, run when its promise resolves with data
OnResolve(q, cont, data) ==
    CASE cont.method = "initSpoof" ->
            \* initialize: this.spoofConfig = await ...; then the network fetch
            sendMessage([q EXCEPT !.spoofConfig =
                               [enabled |-> data.b, spoofedAddress |-> data.s]],
                        "GET_CURRENT_NETWORK", NoPayload, "initNetwork", NoHex)
      [] cont.method = "initNetwork" ->
            IF data.tag = "network"
            THEN Res([q EXCEPT !.chainId = ToHex(data.n),
                               !.networkVersion = ToDec(data.n)], {})
            ELSE Res([q EXCEPT !.chainId = ToHex(1),
                               !.networkVersion = ToDec(1)], {})
      [] cont.method = "eth_requestAccounts" ->
            IF data.tag = "accounts" /\ data.s # NoAddr
            THEN LET q1 == [q EXCEPT !.realAddress = data.s]
                     q2 == [q1 EXCEPT !.selectedAddress = getDisplayAddress(q1)]
                 IN IF q1.spoofConfig = NoSpoofConfig
                    THEN \* this.spoofConfig.enabled of undefined throws
                         Res([q1 EXCEPT !.rejected[cont.call] = TypeError], {})
                    ELSE Res(emit(q2, "accountsChanged"), {})
            ELSE Res(q, {})
      [] cont.method = "wallet_switchEthereumChain" ->
            Res(emit([q EXCEPT !.chainId = cont.hex,
                               !.networkVersion = ToDec(ParseInt(cont.hex, 16))],
                     "chainChanged"), {})
      [] cont.method = "wallet_addEthereumChain" ->
            Res(emit([q EXCEPT !.chainId = cont.hex,
                               !.networkVersion = ToDec(ParseInt(cont.hex, 16))],
                     "chainChanged"), {})
      [] OTHER -> Res(q, {})

\* The code that awaits sendMessage, run when its promise rejects: the promise
\* always rejects with createError(4001, ...), from the response listener or
\* from the timeout.  initialize() catches it; wallet_switchEthereumChain and
\* wallet_addEthereumChain catch it and throw their own error with its message;
\* the other methods return the promise, so that request() rejects with it.
\* rejected is history: the code request() was rejected with, for each call.
OnReject(q, cont, message) ==
    CASE cont.method = "initSpoof" ->
            sendMessage([q EXCEPT !.spoofConfig = SpoofOff],
                        "GET_CURRENT_NETWORK", NoPayload, "initNetwork", NoHex)
      [] cont.method = "initNetwork" ->
            Res([q EXCEPT !.chainId = ToHex(1), !.networkVersion = ToDec(1)], {})
      [] cont.method = "wallet_switchEthereumChain" ->
            Res([q EXCEPT !.rejected[cont.call] =
                             createError(ChainNotAvailable, message).code], {})
      [] cont.method = "wallet_addEthereumChain" ->
            Res([q EXCEPT !.rejected[cont.call] =
                             createError(RequestFailed, message).code], {})
      [] OTHER ->
            Res([q EXCEPT !.rejected[cont.call] =
                             createError(RequestFailed, message).code], {})

\* for a mutant: the entry is looked up under the lowest pending id
PendingKey_Lowest(q, id) ==
    IF DOMAIN q.pendingRequests = {} THEN id
    ELSE CHOOSE k \in DOMAIN q.pendingRequests :
             \A j \in DOMAIN q.pendingRequests : k <= j

\* this.pendingRequests.get(id): the key looked up for a response tagged id
PendingKey(q, id) == id

\* The window listener's MULTISUB_RESPONSE branch: settle the pending request
\* of that id, if there is one, and remove it; ignored is history (the ids of
\* the responses that found no entry)
OnResponse(q, id, response) ==
    LET k == PendingKey(q, id) IN
    IF k \in DOMAIN q.pendingRequests
    THEN LET cont == q.pendingRequests[k]
             q1 == [q EXCEPT !.pendingRequests = MapDelete(@, k),
                             !.settled[cont.call] = Append(@,
                        IF response.success
                        THEN Settlement("resolve", id, response.data, "")
                        ELSE Settlement("reject", id, NoData, response.error))]
         IN IF response.success THEN OnResolve(q1, cont, response.data)
                                ELSE OnReject(q1, cont, response.error)
    ELSE Res([q EXCEPT !.ignored = @ \cup {id}], {})

\* The window listener's MULTISUB_SPOOF_CONFIG_UPDATE branch
OnSpoofConfigUpdate(q, config) ==
    LET q1 == [q EXCEPT !.spoofConfig = config] IN
    IF q1.realAddress # NoAddr /\ config = NoSpoofConfig
    THEN q1   \* getDisplayAddress throws and the listener ends there
    ELSE IF q1.realAddress # NoAddr /\ getDisplayAddress(q1) # q1.selectedAddress
    THEN emit([q1 EXCEPT !.selectedAddress = getDisplayAddress(q1)], "accountsChanged")
    ELSE q1

\* The provider's window 'message' listener
ProviderOnMessage(q, m) ==
    LET r1 == IF m.pfx = Prefix /\ m.name = "RESPONSE"
              THEN OnResponse(q, m.id, m.response)
              ELSE Res(q, {})
    IN IF m.pfx = Prefix /\ m.name = "SPOOF_CONFIG_UPDATE"
       THEN Res(OnSpoofConfigUpdate(r1.p, m.config), r1.post)
       ELSE r1

\* for a mutant: the timeout rejects without removing the entry
OnTimeout_NoDelete(q, t) ==
    IF t.id \in DOMAIN q.pendingRequests
    THEN LET cont == q.pendingRequests[t.id]
             q1 == [q EXCEPT !.timers = @ \ {t},
                             !.settled[t.call] = Append(@,
                                 Settlement("reject", NoId, NoData, "Request timeout"))]
         IN OnReject(q1, cont, "Request timeout")
    ELSE Res([q EXCEPT !.timers = @ \ {t}], {})

\* The setTimeout callback of sendMessage, 60 s after the call
OnTimeout(q, t) ==
    IF t.id \in DOMAIN q.pendingRequests
    THEN LET cont == q.pendingRequests[t.id]
             q1 == [q EXCEPT !.timers = @ \ {t},
                             !.pendingRequests = MapDelete(@, t.id),
                             !.settled[t.call] = Append(@,
                                 Settlement("reject", NoId, NoData, "Request timeout"))]
         IN OnReject(q1, cont, "Request timeout")
    ELSE Res([q EXCEPT !.timers = @ \ {t}], {})

\* request({method, params}): the methods that send a message
request(q, method, n, hex) ==
    CASE method = "eth_requestAccounts" ->
            sendMessage(q, "REQUEST_ACCOUNTS", NoPayload, method, NoHex)
      [] method = "eth_call" ->
            sendMessage(q, "RPC_CALL", Payload(n, NoHex), method, NoHex)
      [] method = "personal_sign" ->
            sendMessage(q, "SIGN_MESSAGE", Payload(n, NoHex), method, NoHex)
      [] method = "eth_sendTransaction" ->
            \* hex: the chainId of the transaction the page passes, if any
            sendMessage(q, "SEND_TRANSACTION", Payload(n, hex), method, NoHex)
      [] method = "wallet_switchEthereumChain" ->
            sendMessage(q, "SWITCH_CHAIN", Payload(0, hex), method, hex)
      [] method = "wallet_addEthereumChain" ->
            sendMessage(q, "ADD_CHAIN", Payload(0, hex), method, hex)

\* request({method: 'eth_accounts'}) and request({method: 'eth_chainId'})
eth_accounts(q) == IF q.selectedAddress # NoAddr THEN << q.selectedAddress >> ELSE << >>
eth_chainId(q) == q.chainId

\* The provider as constructed, before initialize() has sent anything
NewProvider ==
    [requestId |-> 0, pendingRequests |-> << >>, timers |-> {},
     chainId |-> NoHex, networkVersion |-> NoHex,
     selectedAddress |-> NoAddr, realAddress |-> NoAddr, spoofConfig |-> SpoofOff,
     calls |-> << >>, settled |-> << >>, rejected |-> << >>, ignored |-> {},
     accountsChangedCount |-> 0, chainChangedCount |-> 0]

\* new EthereumProvider(): the constructor runs initialize() up to its first await
ConstructedProvider ==
    sendMessage(NewProvider, "GET_ADDRESS_SPOOF_CONFIG", NoPayload, "initSpoof", NoHex)

(***************************************************************************)
(* The agent's stored data (chrome.storage.local and .session) and its     *)
(* in-memory wallet instance, and StorageService's reads of them.          *)
(***************************************************************************)
Mnemonic == "seed words"
PrivateKey == "0xprivkey"
NoSecret == ""

State(isLocked, currentAccount, currentNetwork) ==
    [isLocked |-> isLocked, currentAccount |-> currentAccount,
     currentNetwork |-> currentNetwork]
Account(address, derivationPath) == [address |-> address, derivationPath |-> derivationPath]
Session(sessionPassword, sessionMnemonic) ==
    [sessionPassword |-> sessionPassword, sessionMnemonic |-> sessionMnemonic]
NoSession == Session(FALSE, NoSecret)

\* StorageService.isLocked
isLocked(a) ==
    \/ ~a.session.sessionPassword
    \/ a.session.sessionMnemonic = NoSecret
    \/ a.state.isLocked

\* StorageService.getSessionMnemonic (decrypt undoes the session encryption)
getSessionMnemonic(a) == IF isLocked(a) THEN NoSecret ELSE a.session.sessionMnemonic

\* StorageService.getCurrentNetwork: the chain id of the current network, 0 for null
NoChain == 0
getCurrentNetwork(a) ==
    IF Len(a.networks) = 0 \/ a.state.currentNetwork + 1 \notin DOMAIN a.networks
    THEN NoChain
    ELSE a.networks[a.state.currentNetwork + 1]

\* StorageService.getCurrentAccount: the address of the current account
getCurrentAccount(a) ==
    IF Len(a.accounts) = 0 \/ a.state.currentAccount + 1 \notin DOMAIN a.accounts
    THEN NoAddr
    ELSE a.accounts[a.state.currentAccount + 1].address

\* Array.prototype.findIndex(n => n.chainId === chainId): 0-based, -1 if none
findIndex(networks, chainId) ==
    IF \E i \in DOMAIN networks : networks[i] = chainId
    THEN (CHOOSE i \in DOMAIN networks :
             networks[i] = chainId /\ \A j \in 1..(i - 1) : networks[j] # chainId) - 1
    ELSE -1

\* StorageService.setCurrentNetwork; netChanges is history: the number of times
\* the chain of the agent's current network changed
setCurrentNetwork(a, index) ==
    LET b == [a EXCEPT !.state.currentNetwork = index] IN
    [b EXCEPT !.netChanges = IF getCurrentNetwork(b) # getCurrentNetwork(a)
                             THEN @ + 1 ELSE @]

\* StorageService.setCurrentAccount
setCurrentAccount(a, index) == [a EXCEPT !.state.currentAccount = index]

\* StorageService.setAddressSpoofConfig
setAddressSpoofConfig(a, config) == [a EXCEPT !.addressSpoof = config]

\* StorageService.getAddressSpoofConfig: spoofing off when nothing is stored
getAddressSpoofConfig(a) ==
    IF a.addressSpoof = NoSpoofConfig THEN SpoofOff ELSE a.addressSpoof

\* resetWallet: the wallet instance is dropped and both storage areas are
\* cleared, the addressSpoof key with them.  With no state stored isLocked is
\* true and getCurrentAccount is null, as they are for the state kept here with
\* no session and no accounts.
resetWallet(a) ==
    [a EXCEPT !.accounts = << >>, !.networks = << >>,
              !.state = State(TRUE, 0, 0),
              !.addressSpoof = NoSpoofConfig,
              !.session = Session(FALSE, NoSecret),
              !.walletInstance = NoSecret]

\* createWallet: the first account is derived and stored with the session, the
\* state and the default networks; the addressSpoof key is not written
createWallet(a) ==
    [a EXCEPT !.walletKind = "mnemonic",
              !.accounts = << Account(Addr0, "m/44'/60'/0'/0/0") >>,
              !.networks = DefaultNetworks,
              !.state = State(FALSE, 0, 0),
              !.session = Session(TRUE, Mnemonic),
              !.walletInstance = Mnemonic]

\* What a handler of the agent gives back: the new agent and the response envelope
Out(a, response) == [ag |-> a, response |-> response]

\* for a mutant: a chain that is not stored is switched to the first network
handleSwitchChain_NoCheck(a, chainIdHex) ==
    LET chainId == ParseInt(chainIdHex, 16)
        networkIndex == findIndex(a.networks, chainId)
    IN Out(setCurrentNetwork(a, IF networkIndex = -1 THEN 0 ELSE networkIndex),
           Ok(DataNetwork(chainId)))

\* handleSwitchChain
handleSwitchChain(a, chainIdHex) ==
    LET chainId == ParseInt(chainIdHex, 16)
        networkIndex == findIndex(a.networks, chainId)
    IN IF networkIndex = -1
       THEN Out(a, Err("Chain not found. Please add it first."))
       ELSE Out(setCurrentNetwork(a, networkIndex), Ok(DataNetwork(chainId)))

\* handleAddChain
handleAddChain(a, chainIdHex) ==
    LET chainId == ParseInt(chainIdHex, 16)
        networkIndex == findIndex(a.networks, chainId)
    IN IF networkIndex # -1
       THEN Out(setCurrentNetwork(a, networkIndex), Ok(DataNetwork(chainId)))
       ELSE LET b == [a EXCEPT !.networks = Append(@, chainId)]
            IN Out(setCurrentNetwork(b, findIndex(b.networks, chainId)),
                   Ok(DataNetwork(chainId)))

\* requestAccounts
requestAccounts(a) ==
    IF isLocked(a) THEN Out(a, Err("Wallet is locked. Please unlock your wallet."))
    ELSE IF getCurrentAccount(a) = NoAddr THEN Out(a, Err("No account available"))
    ELSE Out(a, Ok(DataAccounts(getCurrentAccount(a))))

\* handleRpcCall; rpcOk: whether the network call succeeds
handleRpcCall(a, payload, rpcOk) ==
    IF getCurrentNetwork(a) = NoChain THEN Out(a, Err("No network selected"))
    ELSE IF rpcOk THEN Out(a, Ok(DataRpc(payload.n)))
    ELSE Out(a, Err("RPC call failed"))

(***************************************************************************)
(* The agent's handlers, await by await.  The onMessage listener starts    *)
(* handleMessage for every message as it arrives; a handler runs until it  *)
(* awaits chrome.storage or a signer, and goes on when that completes.  A  *)
(* thread is one call of handleMessage: pc names the operation it awaits,  *)
(* the other fields are its local variables.  A step of a thread is the    *)
(* completion of the awaited operation and the code up to the next await.  *)
(***************************************************************************)
SigningTypes == { "SIGN_MESSAGE", "SIGN_TRANSACTION", "SEND_TRANSACTION" }

\* SignerType of BaseSigner
SOFTWARE == "software"
LEDGER == "ledger"

\* A signer: its type and the key it signs with (the Ledger's is on the device)
Signer(type, key) == [type |-> type, key |-> key]
NoSigner == Signer("", "")

\* Wallet.getPrivateKey(path): the key the mnemonic derives on the path
getPrivateKey(mnemonic, path) ==
    CASE path = "m/44'/60'/0'/0/0" -> "key of seed words at 0"
      [] path = "m/44'/60'/0'/0/1" -> "key of seed words at 1"
      [] OTHER -> "key of seed words"
\* The key the Ledger device holds on the path
LedgerKey(path) ==
    CASE path = "m/44'/60'/0'/0/0" -> "device key at 0"
      [] path = "m/44'/60'/0'/0/1" -> "device key at 1"
      [] OTHER -> "device key"

\* String.prototype.startsWith('0x') of a session secret
StartsWith0x(secret) == secret = PrivateKey

\* The address a key controls: what a signature made with the key recovers to
AddressOfKey(key) ==
    CASE key \in { "key of seed words at 0", "device key at 0", PrivateKey } -> Addr0
      [] key \in { "key of seed words at 1", "device key at 1" } -> Addr1
      [] OTHER -> NoAddr

\* signer.signMessage / signTransaction: a signature of n that recovers to the
\* address of the key, made on the device or not
DataSignature(signer, n) ==
    Data("signature", n, AddressOfKey(signer.key), signer.type = LEDGER)
\* getMnemonic's { mnemonic }
DataMnemonic(mnemonic) == Data("mnemonic", 0, mnemonic, FALSE)

\* StorageService.getWalletType
getWalletType(a) == IF a.walletKind = "ledger" THEN LEDGER ELSE SOFTWARE

\* for a mutant: the account is the one the spoof configuration displays
getCurrentAccountPath_Spoofed(a) ==
    IF a.addressSpoof.enabled /\ a.addressSpoof.spoofedAddress # ""
    THEN a.accounts[Len(a.accounts)].derivationPath
    ELSE a.accounts[a.state.currentAccount + 1].derivationPath

\* StorageService.getCurrentAccount: the account record, its path "" for null
getCurrentAccountPath(a) ==
    IF Len(a.accounts) = 0 \/ a.state.currentAccount + 1 \notin DOMAIN a.accounts
    THEN ""
    ELSE a.accounts[a.state.currentAccount + 1].derivationPath

\* A call of handleMessage.  started, lockedAll, unlockedAll, afterRestart and
\* disturbed are history: whether a signer was asked to sign, whether the
\* wallet was locked, or unlocked, at every moment of the call, whether the
\* call is the first since the agent was recreated with no unlock since, and
\* whether another call changed the agent's data during this one.
Thread(type, origin, id, n) ==
    [type |-> type, origin |-> origin, id |-> id, n |-> n,
     pc |-> "idle", ret |-> "", st |-> State(TRUE, 0, 0), locked |-> TRUE,
     secret |-> NoSecret, signer |-> NoSigner, response |-> NoResp,
     started |-> FALSE, lockedAll |-> TRUE, unlockedAll |-> TRUE,
     afterRestart |-> FALSE, disturbed |-> FALSE]
IdleThread == Thread("", "", NoId, 0)

\* What a step gives back: the new agent and the thread
Stepped(a, th) == [ag |-> a, th |-> th]
\* The handler returns or throws: the listener's then/catch sends the response
Done(a, th, response) == Stepped(a, [th EXCEPT !.pc = "done", !.response = response])
\* The handler awaits op
Await(a, th, op) == Stepped(a, [th EXCEPT !.pc = op])

\* signMessage / signTransaction / sendTransaction from the choice of the signer
\* on: the signer is asked to sign
StartSigning(a, th, signer) ==
    Await(a, [th EXCEPT !.signer = signer, !.started = TRUE], "sign")

SelectSigner(a, th) ==
    LET path == getCurrentAccountPath(a) IN
    IF path = "" THEN Done(a, th, Err("No account selected"))
    ELSE IF getWalletType(a) = LEDGER
    THEN StartSigning(a, th, Signer(LEDGER, LedgerKey(path)))
    ELSE IF a.walletInstance # NoSecret
    THEN StartSigning(a, th, Signer(SOFTWARE, getPrivateKey(a.walletInstance, path)))
    ELSE Await(a, [th EXCEPT !.ret = "select"], "getState")

\* getMnemonic
getMnemonic(a, th) ==
    IF a.walletInstance = NoSecret THEN Done(a, th, Err("Wallet is locked"))
    ELSE Done(a, th, Ok(DataMnemonic(a.walletInstance)))

\* handleMessage's switch, up to the first await of the case
Dispatch(a, th) ==
    CASE th.type = "UNLOCK_WALLET" -> Await(a, th, "session.set")
      [] th.type = "LOCK_WALLET" ->
            Await([a EXCEPT !.walletInstance = NoSecret], th, "session.remove")
      [] th.type \in SigningTypes -> SelectSigner(a, th)
      [] th.type = "GET_MNEMONIC" -> getMnemonic(a, th)
      [] th.type = "SET_CURRENT_NETWORK" -> Await(a, [th EXCEPT !.ret = "network"], "getState")
      [] OTHER -> Done(a, th, Err("Unknown message type"))

\* for a mutant: ensureWalletInstance restores nothing
ensureWalletInstance_Nothing(a, th) == Dispatch(a, th)

\* ensureWalletInstance up to its first read of the session, or to its return
ensureWalletInstance(a, th) ==
    IF a.walletInstance # NoSecret THEN Dispatch(a, th)
    ELSE IF a.walletKind = "none" THEN Dispatch(a, th)
    ELSE IF a.walletKind = "privateKey" THEN Dispatch(a, th)
    ELSE Await(a, [th EXCEPT !.ret = "ensure"], "getState")

\* The code that awaited getSessionMnemonic, given what it returned
AfterSessionMnemonic(a, th, secret) ==
    CASE th.ret = "ensure" ->
            IF secret = NoSecret \/ StartsWith0x(secret) THEN Dispatch(a, th)
            ELSE Await(a, [th EXCEPT !.secret = secret], "fromMnemonic")
      [] th.ret = "select" ->
            IF secret = NoSecret THEN Done(a, th, Err("Wallet is locked"))
            ELSE IF StartsWith0x(secret)
            THEN StartSigning(a, th, Signer(SOFTWARE, secret))
            ELSE Done(a, th, Err("Wallet state error: no wallet instance but session contains mnemonic"))

\* chrome.storage.local.set of the state; netChanges is history
WriteState(a, st) ==
    LET b == [a EXCEPT !.state = st] IN
    [b EXCEPT !.netChanges = IF getCurrentNetwork(b) # getCurrentNetwork(a)
                             THEN @ + 1 ELSE @]

\* The secret unlockWallet decrypts with the password: the mnemonic, or the
\* imported private key, kept in the same field
DecryptedSecret(a) ==
    CASE a.walletKind = "mnemonic" -> Mnemonic
      [] a.walletKind = "privateKey" -> PrivateKey
      [] OTHER -> NoSecret

\* unlockWallet and StorageService.unlockWallet once the state is written
AfterUnlockState(a, th) ==
    CASE a.walletKind = "ledger" -> Done(a, th, Ok(DataAccounts(getCurrentAccount(a))))
      [] a.walletKind = "privateKey" ->
            LET b == [a EXCEPT !.walletInstance = NoSecret]
            IN Done(b, th, Ok(DataAccounts(getCurrentAccount(b))))
      [] OTHER -> Await(a, th, "fromMnemonic")

\* The awaited operation completes and the handler runs to its next await
HandlerStep(a, th) ==
    CASE th.pc = "getState" ->
            LET t1 == [th EXCEPT !.st = a.state] IN
            IF th.ret \in { "ensure", "select" } THEN Await(a, t1, "session.get")
            ELSE Await(a, t1, "setState")
      [] th.pc = "session.get" ->
            \* isLocked
            LET locked == \/ ~a.session.sessionPassword
                          \/ a.session.sessionMnemonic = NoSecret
                          \/ th.st.isLocked
                t1 == [th EXCEPT !.locked = locked]
            IN IF locked THEN AfterSessionMnemonic(a, t1, NoSecret)
               ELSE Await(a, t1, "session.get again")
      [] th.pc = "session.get again" ->
            \* getSessionMnemonic
            IF ~a.session.sessionPassword \/ a.session.sessionMnemonic = NoSecret
            THEN AfterSessionMnemonic(a, th, NoSecret)
            ELSE AfterSessionMnemonic(a, th, a.session.sessionMnemonic)
      [] th.pc = "fromMnemonic" ->
            LET b == [a EXCEPT !.walletInstance = th.secret] IN
            IF th.ret = "ensure" THEN Dispatch(b, th)
            ELSE Done(b, th, Ok(DataAccounts(getCurrentAccount(b))))
      [] th.pc = "session.set" ->
            \* unlockWallet
            LET b == IF a.walletKind = "ledger"
                     THEN [a EXCEPT !.session.sessionPassword = TRUE]
                     ELSE [a EXCEPT !.session = Session(TRUE, DecryptedSecret(a))]
            IN Await(b, [th EXCEPT !.secret = DecryptedSecret(a), !.ret = "unlock"],
                     "getState")
      [] th.pc = "session.remove" ->
            \* StorageService.lockWallet
            Await([a EXCEPT !.session = NoSession], [th EXCEPT !.ret = "lock"], "getState")
      [] th.pc = "setState" ->
            CASE th.ret = "unlock" ->
                    AfterUnlockState(
                        WriteState(a, State(FALSE, th.st.currentAccount,
                                            th.st.currentNetwork)), th)
              [] th.ret = "lock" ->
                    Done(WriteState(a, [th.st EXCEPT !.isLocked = TRUE]), th, Ok(NoData))
              [] OTHER ->
                    \* StorageService.setCurrentNetwork
                    Done(WriteState(a, [th.st EXCEPT !.currentNetwork = th.n]), th,
                         Ok(NoData))
      [] th.pc = "sign" ->
            Done(a, [th EXCEPT !.signer = NoSigner],
                 Ok(DataSignature(th.signer, th.n)))
      [] OTHER -> Stepped(a, th)

\* A handler that no other handler overlaps, from the arrival of its message
RECURSIVE RunToCompletion(_)
RunToCompletion(r) ==
    IF r.th.pc = "done" THEN r ELSE RunToCompletion(HandlerStep(r.ag, r.th))

\* handleMessage with the onMessage listener's {success, data} / {success:false,
\* error} envelope, for a handler that no other handler overlaps
handleMessage(a, type, payload, config, rpcOk) ==
    CASE type = "GET_ADDRESS_SPOOF_CONFIG" -> Out(a, Ok(DataSpoof(getAddressSpoofConfig(a))))
      [] type = "SET_ADDRESS_SPOOF_CONFIG" -> Out(setAddressSpoofConfig(a, config), Ok(NoData))
      [] type = "GET_CURRENT_NETWORK" ->
            Out(a, Ok(IF getCurrentNetwork(a) = NoChain THEN Data("null", 0, "", FALSE)
                      ELSE DataNetwork(getCurrentNetwork(a))))
      [] type = "SET_CURRENT_NETWORK" -> Out(setCurrentNetwork(a, payload.n), Ok(NoData))
      [] type = "SET_CURRENT_ACCOUNT" -> Out(setCurrentAccount(a, payload.n), Ok(NoData))
      [] type = "REQUEST_ACCOUNTS" -> requestAccounts(a)
      [] type = "RPC_CALL" -> handleRpcCall(a, payload, rpcOk)
      [] type = "SWITCH_CHAIN" -> handleSwitchChain(a, payload.hex)
      [] type = "ADD_CHAIN" -> handleAddChain(a, payload.hex)
      [] type = "RESET_WALLET" -> Out(resetWallet(a), Ok(NoData))
      [] type = "CREATE_WALLET" -> Out(createWallet(a), Ok(NoData))
      [] OTHER ->
            LET r == RunToCompletion(
                         ensureWalletInstance(a, Thread(type, "", NoId, payload.n)))
            IN Out(r.ag, r.th.response)

(***************************************************************************)
(* The bridge (content script).                                            *)
(***************************************************************************)
\* The id the bridge tags the response with: that of the page message
ResponseId(x) == x.id

\* The window listener of the bridge: a message whose type starts with
\* 'MULTISUB_' is forwarded to the agent with the prefix removed
BridgeForward(m) ==
    IF m.pfx = Prefix
    THEN { [id |-> m.id, type |-> m.name, payload |-> m.payload, config |-> SpoofOff] }
    ELSE {}

\* for a mutant: the response is posted without the id of the page message
BridgeResponse_NoId(x, response) ==
    Msg(Prefix, "RESPONSE", NoId, NoPayload, response, SpoofOff)

\* window.postMessage({type: 'MULTISUB_RESPONSE', id, response})
BridgeResponse(x, response) ==
    Msg(Prefix, "RESPONSE", ResponseId(x), NoPayload, response, SpoofOff)

\* chrome.storage.onChanged listener: only a change of addressSpoof is told to the page
BridgeOnStorageChanged(old, new) ==
    IF new.addressSpoof # old.addressSpoof
    THEN { Msg(Prefix, "SPOOF_CONFIG_UPDATE", NoId, NoPayload, NoResp, new.addressSpoof) }
    ELSE {}

(***************************************************************************)
(* The module wrapping engine.  A string is the sequence of its            *)
(* characters, so that slices, prefixes and letter case are what they are  *)
(* in the code; an address has 40 hex characters and an ABI word 64.       *)
(***************************************************************************)
LowerDigits == << "0", "1", "2", "3", "4", "5", "6", "7", "8", "9",
                  "a", "b", "c", "d", "e", "f" >>
UpperDigits == << "0", "1", "2", "3", "4", "5", "6", "7", "8", "9",
                  "A", "B", "C", "D", "E", "F" >>

\* String.prototype.toLowerCase
toLowerCase(s) ==
    [i \in 1..Len(s) |->
        IF s[i] = "X" THEN "x"
        ELSE IF \E d \in 11..16 : s[i] = UpperDigits[d]
             THEN LowerDigits[CHOOSE d \in 11..16 : s[i] = UpperDigits[d]]
             ELSE s[i]]

\* String.prototype.slice(start, end), for 0 <= start and 0 <= end
slice(s, start, end) ==
    LET last == IF end < Len(s) THEN end ELSE Len(s)
    IN IF start >= last THEN << >> ELSE SubSeq(s, start + 1, last)

\* String.prototype.startsWith
startsWith(s, prefix) ==
    Len(s) >= Len(prefix) /\ SubSeq(s, 1, Len(prefix)) = prefix

\* The string '0x'
Str0x == << "0", "x" >>

\* n copies of the character c
Rep(c, n) == [i \in 1..n |-> c]

\* A value that is undefined or null, as a string is the empty sequence
Undefined == << >>

\* A bigint is modelled by its hex digits without leading zeros, in lower
\* case: two bigints are equal exactly when the digits are
RECURSIVE StripZeros(_)
StripZeros(ds) ==
    IF Len(ds) > 1 /\ ds[1] = "0" THEN StripZeros(Tail(ds)) ELSE ds

\* BigInt('0x' + hex): throws (ok = FALSE) when there is no digit or a
\* character is not a hex digit
BigInt(s) ==
    LET hex == slice(s, 2, Len(s)) IN
    IF \/ hex = << >>
       \/ \E i \in 1..Len(hex) :
             \A d \in 1..16 : hex[i] # LowerDigits[d] /\ hex[i] # UpperDigits[d]
    THEN [ok |-> FALSE, value |-> << >>]
    ELSE [ok |-> TRUE, value |-> StripZeros(toLowerCase(hex))]

ERC20_TRANSFER_SELECTOR == << "0", "x", "a", "9", "0", "5", "9", "c", "b", "b" >>
ERC20_APPROVE_SELECTOR == << "0", "x", "0", "9", "5", "e", "a", "7", "b", "3" >>

\* isERC20Transfer
isERC20Transfer(transaction) ==
    IF transaction.data = Undefined THEN FALSE
    ELSE startsWith(toLowerCase(transaction.data), ERC20_TRANSFER_SELECTOR)

\* decodeERC20Transfer: null (ok = FALSE) when BigInt throws
decodeERC20Transfer(data) ==
    LET params == slice(data, 10, Len(data))
        recipientHex == slice(params, 24, 64)
        recipient == Str0x \o recipientHex
        amountHex == slice(params, 64, 128)
        amount == BigInt(Str0x \o amountHex)
    IN IF amount.ok
       THEN [ok |-> TRUE, recipient |-> recipient, amount |-> amount.value]
       ELSE [ok |-> FALSE, recipient |-> << >>, amount |-> << >>]

\* isERC20Approve
isERC20Approve(transaction) ==
    IF transaction.data = Undefined THEN FALSE
    ELSE startsWith(toLowerCase(transaction.data), ERC20_APPROVE_SELECTOR)

\* for a mutant: the spender is read from the start of its word
decodeERC20Approve_Unpadded(data) ==
    LET params == slice(data, 10, Len(data))
        amount == BigInt(Str0x \o slice(params, 64, 128))
    IN [ok |-> amount.ok, spender |-> Str0x \o slice(params, 0, 40),
        amount |-> amount.value]

\* decodeERC20Approve: null (ok = FALSE) when BigInt throws
decodeERC20Approve(data) ==
    LET params == slice(data, 10, Len(data))
        spenderHex == slice(params, 24, 64)
        spender == Str0x \o spenderHex
        amountHex == slice(params, 64, 128)
        amount == BigInt(Str0x \o amountHex)
    IN IF amount.ok
       THEN [ok |-> TRUE, spender |-> spender, amount |-> amount.value]
       ELSE [ok |-> FALSE, spender |-> << >>, amount |-> << >>]

\* supplyWithPermit, permitAndDeposit, permit
UNWRAPPABLE_SELECTORS ==
    { << "0", "x", "0", "2", "c", "2", "0", "5", "f", "0" >>,
      << "0", "x", "6", "8", "0", "d", "d", "4", "7", "c" >>,
      << "0", "x", "d", "5", "0", "5", "a", "c", "c", "f" >> }

\* for a mutant: the selector is compared as it is spelled
isUnwrappableCall_CaseSensitive(transaction) ==
    IF transaction.data = Undefined THEN FALSE
    ELSE slice(transaction.data, 0, 10) \in UNWRAPPABLE_SELECTORS

\* isUnwrappableCall
isUnwrappableCall(transaction) ==
    IF transaction.data = Undefined THEN FALSE
    ELSE LET selector == toLowerCase(slice(transaction.data, 0, 10))
         IN selector \in UNWRAPPABLE_SELECTORS

\* isProtocolCall
isProtocolCall(transaction, whitelistedAddresses) ==
    IF transaction.to = Undefined \/ transaction.data = Undefined THEN FALSE
    ELSE IF isUnwrappableCall(transaction) THEN FALSE
    ELSE LET normalizedTo == toLowerCase(transaction.to)
             normalizedWhitelist == { toLowerCase(addr) : addr \in whitelistedAddresses }
         IN normalizedTo \in normalizedWhitelist

\* A transaction request: the fields the engine reads and rewrites.  value is
\* "undefined", the number "0", or the hex quantity the page gave.
Tx(to, data, value) == [to |-> to, data |-> data, value |-> value]

\* The per-chain configuration of the module, and none
WrapConfig(moduleAddress, chainId, enabled, whitelistedProtocols) ==
    [exists |-> TRUE, moduleAddress |-> moduleAddress, chainId |-> chainId,
     enabled |-> enabled, whitelistedProtocols |-> whitelistedProtocols]
NoConfig ==
    [exists |-> FALSE, moduleAddress |-> << >>, chainId |-> NoChain,
     enabled |-> FALSE, whitelistedProtocols |-> {}]

\* StorageService.getDeFiInteractorConfigForChain: the stored configuration
\* of that chain id, of which there is at most one
getDeFiInteractorConfigForChain(configs, chainId) ==
    IF \E c \in configs : c.chainId = chainId
    THEN CHOOSE c \in configs : c.chainId = chainId
    ELSE NoConfig

\* The selectors of the module's functions: transferToken(address,address,
\* uint256), approveProtocol(address,address,uint256) and
\* executeOnProtocol(address,bytes)
DEFI_INTERACTOR_ABI ==
    [transferToken |-> << "0", "x", "f", "5", "5", "3", "7", "e", "d", "e" >>,
     approveProtocol |-> << "0", "x", "e", "6", "9", "d", "6", "e", "d", "e" >>,
     executeOnProtocol |-> << "0", "x", "d", "9", "3", "4", "8", "4", "f", "e" >>]

\* The ABI coder of ethers: an address and a uint256 as 32-byte words, a
\* bytes value as its length and its bytes padded to whole words.  An address
\* is accepted when it is '0x' and 40 hex digits.
IsAddress(a) == Len(a) = 42 /\ startsWith(a, Str0x) /\ BigInt(a).ok
AddressWord(a) == Rep("0", 24) \o toLowerCase(slice(a, 2, 42))
UintWord(v) == Rep("0", 64 - Len(v)) \o v
HexOfNat(n) == [i \in 1..Len(Digits(n, 16)) |-> LowerDigits[Digits(n, 16)[i] + 1]]
BytesTail(data) ==
    LET hex == toLowerCase(slice(data, 2, Len(data)))
    IN UintWord(HexOfNat(Len(hex) \div 2)) \o hex \o Rep("0", (64 - (Len(hex) % 64)) % 64)

\* Interface.encodeFunctionData(name, args): throws (ok = FALSE) for an
\* argument that is not an address
encodeFunctionData(name, args) ==
    IF name = "executeOnProtocol"
    THEN IF IsAddress(args[1])
         THEN [ok |-> TRUE,
               data |-> DEFI_INTERACTOR_ABI[name] \o AddressWord(args[1])
                           \o UintWord(HexOfNat(64)) \o BytesTail(args[2])]
         ELSE [ok |-> FALSE, data |-> << >>]
    ELSE IF IsAddress(args[1]) /\ IsAddress(args[2])
         THEN [ok |-> TRUE,
               data |-> DEFI_INTERACTOR_ABI[name] \o AddressWord(args[1])
                           \o AddressWord(args[2]) \o UintWord(args[3])]
         ELSE [ok |-> FALSE, data |-> << >>]

\* What a wrapper gives back: a transaction, null, or an exception thrown
Returned(transaction) == [how |-> "returned", tx |-> transaction]
ReturnedNull == [how |-> "null", tx |-> Tx(Undefined, Undefined, "undefined")]
Thrown == [how |-> "thrown", tx |-> Tx(Undefined, Undefined, "undefined")]

\* for a mutant: the approve is wrapped whoever the spender is
wrapApproveThroughModule_AnySpender(transaction, config) ==
    LET approveData == decodeERC20Approve(transaction.data)
        wrappedData == encodeFunctionData("approveProtocol",
                          << transaction.to, approveData.spender, approveData.amount >>)
    IN IF ~approveData.ok THEN ReturnedNull
       ELSE IF ~wrappedData.ok THEN Thrown
       ELSE Returned([transaction EXCEPT !.to = config.moduleAddress,
                                         !.data = wrappedData.data,
                                         !.value = "0"])

\* wrapApproveThroughModule, with the configuration it reads from the store
wrapApproveThroughModule(transaction, config) ==
    IF ~config.exists \/ ~config.enabled THEN ReturnedNull
    ELSE LET approveData == decodeERC20Approve(transaction.data) IN
         IF ~approveData.ok THEN ReturnedNull
         ELSE LET whitelisted == config.whitelistedProtocols
                  isWhitelisted == \E addr \in whitelisted :
                                      toLowerCase(addr) = toLowerCase(approveData.spender)
              IN IF ~isWhitelisted THEN ReturnedNull
                 ELSE LET wrappedData ==
                             encodeFunctionData("approveProtocol",
                                << transaction.to, approveData.spender,
                                   approveData.amount >>)
                      IN IF ~wrappedData.ok THEN Thrown
                         ELSE Returned([transaction EXCEPT
                                           !.to = config.moduleAddress,
                                           !.data = wrappedData.data,
                                           !.value = "0"])

\* for a mutant: the value of a wrapped protocol call is set to zero
wrapProtocolCallThroughModule_NoValue(transaction, config) ==
    IF ~config.exists \/ ~config.enabled THEN ReturnedNull
    ELSE IF ~isProtocolCall(transaction, config.whitelistedProtocols) THEN ReturnedNull
    ELSE LET wrappedData == encodeFunctionData("executeOnProtocol",
                               << transaction.to, transaction.data >>)
         IN IF ~wrappedData.ok THEN Thrown
            ELSE Returned([transaction EXCEPT !.to = config.moduleAddress,
                                              !.data = wrappedData.data,
                                              !.value = "0"])

\* wrapProtocolCallThroughModule
wrapProtocolCallThroughModule(transaction, config) ==
    IF ~config.exists \/ ~config.enabled THEN ReturnedNull
    ELSE LET whitelisted == config.whitelistedProtocols IN
         IF ~isProtocolCall(transaction, whitelisted) THEN ReturnedNull
         ELSE LET wrappedData == encodeFunctionData("executeOnProtocol",
                                    << transaction.to, transaction.data >>)
              IN IF ~wrappedData.ok THEN Thrown
                 ELSE Returned([transaction EXCEPT
                        !.to = config.moduleAddress,
                        !.data = wrappedData.data,
                        !.value = IF transaction.value \in { "undefined", "0" }
                                  THEN "0" ELSE transaction.value])

\* for a mutant: the recipient is read one character further on
wrapTransferThroughModule_Shifted(transaction, config) ==
    LET transferData == decodeERC20Transfer(transaction.data)
        wrappedData == encodeFunctionData("transferToken",
                          << transaction.to,
                             Str0x \o slice(transaction.data, 35, 75),
                             transferData.amount >>)
    IN IF ~transferData.ok THEN Returned(transaction)
       ELSE IF ~wrappedData.ok THEN Thrown
       ELSE Returned([transaction EXCEPT !.to = config.moduleAddress,
                                         !.data = wrappedData.data,
                                         !.value = "0"])

\* wrapTransferThroughModule
wrapTransferThroughModule(transaction, config) ==
    IF ~config.exists \/ ~config.enabled THEN Returned(transaction)
    ELSE IF ~isERC20Transfer(transaction) THEN Returned(transaction)
    ELSE LET transferData == decodeERC20Transfer(transaction.data) IN
         IF ~transferData.ok THEN Returned(transaction)
         ELSE LET wrappedData ==
                     encodeFunctionData("transferToken",
                        << transaction.to, transferData.recipient,
                           transferData.amount >>)
              IN IF ~wrappedData.ok THEN Thrown
                 ELSE Returned([transaction EXCEPT !.to = config.moduleAddress,
                                                   !.data = wrappedData.data,
                                                   !.value = "0"])

\* for a mutant: a configuration that is not enabled is used all the same
wrapTransactionThroughModule_IgnoreEnabled(transaction, chainId, configs) ==
    LET stored == getDeFiInteractorConfigForChain(configs, chainId)
        config == [stored EXCEPT !.enabled = TRUE]
    IN
    IF ~config.exists THEN Returned(transaction)
    ELSE IF isERC20Approve(transaction)
         THEN LET wrapped == wrapApproveThroughModule(transaction, config)
              IN IF wrapped.how = "null" THEN Returned(transaction) ELSE wrapped
    ELSE IF isERC20Transfer(transaction)
         THEN wrapTransferThroughModule(transaction, config)
    ELSE LET wrapped == wrapProtocolCallThroughModule(transaction, config)
         IN IF wrapped.how = "null" THEN Returned(transaction) ELSE wrapped

\* wrapTransactionThroughModule(transaction, chainId), with the stored
\* configurations; every wrapper it calls reads the same configuration again
wrapTransactionThroughModule(transaction, chainId, configs) ==
    LET config == getDeFiInteractorConfigForChain(configs, chainId) IN
    IF ~config.exists \/ ~config.enabled THEN Returned(transaction)
    ELSE IF isERC20Approve(transaction)
         THEN LET wrapped == wrapApproveThroughModule(transaction, config)
              IN IF wrapped.how = "null" THEN Returned(transaction) ELSE wrapped
    ELSE IF isERC20Transfer(transaction)
         THEN wrapTransferThroughModule(transaction, config)
    ELSE IF transaction.data # Undefined /\ transaction.data # Str0x
         THEN LET wrapped == wrapProtocolCallThroughModule(transaction, config)
              IN IF wrapped.how = "null" THEN Returned(transaction) ELSE wrapped
    ELSE Returned(transaction)

\* Nothing wrapped or decoded yet
NoWrap ==
    [tx |-> Tx(Undefined, Undefined, "undefined"), chainId |-> NoChain, configs |-> {},
     call |-> [fn |-> "", address |-> << >>, amount |-> << >>],
     result |-> ReturnedNull, wrapped |-> FALSE,
     transfer |-> decodeERC20Transfer(Undefined),
     approve |-> decodeERC20Approve(Undefined), decoded |-> FALSE]

(***************************************************************************)
(* sendTransaction: the transaction request of the payload is bound to the *)
(* network, wrapped, given a gas limit, fee fields and a nonce, then       *)
(* signed and broadcast.                                                   *)
(***************************************************************************)
\* A number or bigint held by a field is the sequence of it alone; a field
\* that is undefined or null is the empty sequence
Num(n) == << n >>
\* The value of a numeric field is truthy: neither undefined nor zero
Truthy(v) == v # Undefined /\ v # Num(0)

\* An ethers.TransactionRequest with no more than to, data and value
TransactionRequest(to, data, value) ==
    [to |-> to, data |-> data, value |-> value, from |-> Undefined,
     chainId |-> Undefined, gas |-> Undefined, gasLimit |-> Undefined,
     gasPrice |-> Undefined, maxFeePerGas |-> Undefined,
     maxPriorityFeePerGas |-> Undefined, nonce |-> Undefined, type |-> Undefined]

\* What a call of the JSON-RPC provider came to: a number, or an exception
RpcNumber(n) == [ok |-> TRUE, value |-> n]
RpcFailed == [ok |-> FALSE, value |-> 0]
\* What provider.getFeeData() came to: the three fees, each a number or null
FeeData(maxFeePerGas, maxPriorityFeePerGas, gasPrice) ==
    [ok |-> TRUE, maxFeePerGas |-> maxFeePerGas,
     maxPriorityFeePerGas |-> maxPriorityFeePerGas, gasPrice |-> gasPrice]
FeeDataFailed ==
    [ok |-> FALSE, maxFeePerGas |-> Undefined, maxPriorityFeePerGas |-> Undefined,
     gasPrice |-> Undefined]

\* sendTransaction, the transaction it prepares: the payload's with the chain
\* id of the current network, and the current account as sender if it names none
bindChain(transaction, network, currentAccount) ==
    [transaction EXCEPT
        !.chainId = Num(network.chainId),
        !.from = IF transaction.from # Undefined THEN transaction.from
                 ELSE currentAccount.address]

\* sendTransaction, the wrapping: the transaction as wrapped, with the chain id
\* and the current account set again; the transaction as it was when the
\* wrapping throws
wrapStep(transaction, network, currentAccount, configs) ==
    LET wrappedTx == wrapTransactionThroughModule(transaction, network.chainId, configs)
    IN IF wrappedTx.how = "thrown" THEN transaction
       ELSE [wrappedTx.tx EXCEPT !.chainId = Num(network.chainId),
                                 !.from = currentAccount.address]

\* for a mutant: a payload of exactly 100 bytes counts as a medium one
gasStage_From100(transaction, gasEstimate) ==
    LET tx == IF Truthy(transaction.gas) /\ ~Truthy(transaction.gasLimit)
              THEN [transaction EXCEPT !.gasLimit = transaction.gas, !.gas = Undefined]
              ELSE transaction
    IN IF Truthy(tx.gasLimit) THEN tx
       ELSE IF gasEstimate.ok
            THEN [tx EXCEPT !.gasLimit = Num((gasEstimate.value * 150) \div 100)]
       ELSE IF tx.data # Undefined /\ tx.data # Str0x
            THEN IF Len(tx.data) - 2 > 2 * 1000 THEN [tx EXCEPT !.gasLimit = Num(500000)]
                 ELSE IF Len(tx.data) - 2 >= 2 * 100 THEN [tx EXCEPT !.gasLimit = Num(300000)]
                 ELSE [tx EXCEPT !.gasLimit = Num(100000)]
       ELSE [tx EXCEPT !.gasLimit = Num(21000)]

\* sendTransaction, the gas limit: 'gas' is taken for 'gasLimit' when only it
\* is given; a gas limit that is not given is the estimate and half of it
\* more, or by the length of the data when the estimate fails.  dataLength is
\* (data.length - 2) / 2, compared here as its double.
gasStage(transaction, gasEstimate) ==
    LET tx == IF Truthy(transaction.gas) /\ ~Truthy(transaction.gasLimit)
              THEN [transaction EXCEPT !.gasLimit = transaction.gas, !.gas = Undefined]
              ELSE transaction
    IN IF Truthy(tx.gasLimit) THEN tx
       ELSE IF gasEstimate.ok
            THEN [tx EXCEPT !.gasLimit = Num((gasEstimate.value * 150) \div 100)]
       ELSE IF tx.data # Undefined /\ tx.data # Str0x
            THEN IF Len(tx.data) - 2 > 2 * 1000 THEN [tx EXCEPT !.gasLimit = Num(500000)]
                 ELSE IF Len(tx.data) - 2 > 2 * 100 THEN [tx EXCEPT !.gasLimit = Num(300000)]
                 ELSE [tx EXCEPT !.gasLimit = Num(100000)]
       ELSE [tx EXCEPT !.gasLimit = Num(21000)]

\* sendTransaction, the fee fields, when neither gasPrice nor maxFeePerGas is
\* given: the two of EIP-1559 and type 2 when the fee data has both, else the
\* gas price when the fee data has one; nothing when getFeeData throws
feeStage(transaction, feeData) ==
    IF ~Truthy(transaction.gasPrice) /\ ~Truthy(transaction.maxFeePerGas)
    THEN IF ~feeData.ok THEN transaction
         ELSE IF Truthy(feeData.maxFeePerGas) /\ Truthy(feeData.maxPriorityFeePerGas)
              THEN [transaction EXCEPT
                       !.maxFeePerGas = feeData.maxFeePerGas,
                       !.maxPriorityFeePerGas = feeData.maxPriorityFeePerGas,
                       !.type = Num(2)]
         ELSE IF Truthy(feeData.gasPrice)
              THEN [transaction EXCEPT !.gasPrice = feeData.gasPrice]
         ELSE transaction
    ELSE transaction

\* for a mutant: a nonce that cannot be fetched is left undefined
nonceStage_Swallowed(transaction, count) ==
    IF transaction.nonce = Undefined /\ count.ok
    THEN [ok |-> TRUE, tx |-> [transaction EXCEPT !.nonce = Num(count.value)]]
    ELSE [ok |-> TRUE, tx |-> transaction]

\* sendTransaction, the nonce: a nonce that is undefined is the transaction
\* count of the current account; getTransactionCount is not in a try block
nonceStage(transaction, count) ==
    IF transaction.nonce = Undefined
    THEN IF count.ok
         THEN [ok |-> TRUE, tx |-> [transaction EXCEPT !.nonce = Num(count.value)]]
         ELSE [ok |-> FALSE, tx |-> transaction]
    ELSE [ok |-> TRUE, tx |-> transaction]

\* A call of sendTransaction.  pc is the await it stands at; payload is the
\* transaction of the message and origin who composed it; tx is the local
\* variable 'transaction'.  log, asked, gasEstimate, feeData, count, signedTx and
\* broadcast are history: the stages passed in their order, the calls made of
\* the JSON-RPC provider and what they came to, the transactions handed to
\* signer.signTransaction and those handed to provider.broadcastTransaction;
\* path is payload.path ("" for none) and nonceOf, history, the address
\* getTransactionCount was asked about.  handler is the function called, and
\* typed says what payload.typed and the typed data of signMessage are.
NoSend ==
    [pc |-> "idle", origin |-> "", configs |-> {}, path |-> "", nonceOf |-> Undefined,
     handler |-> "sendTransaction", typed |-> "no",
     payload |-> TransactionRequest(Undefined, Undefined, "undefined"),
     tx |-> TransactionRequest(Undefined, Undefined, "undefined"),
     log |-> << >>, asked |-> {},
     gasEstimate |-> RpcFailed, feeData |-> FeeDataFailed, count |-> RpcFailed,
     signer |-> NoSigner, cleared |-> FALSE,
     signedTx |-> << >>, broadcast |-> << >>, error |-> ""]

\* What the JSON-RPC provider answers to the calls of one step
Env(rpc, feeData) == [rpc |-> rpc, feeData |-> feeData]

\* sendTransaction throws
SendFailed(s, message) == [s EXCEPT !.pc = "failed", !.error = message]

\* sendTransaction, the choice of the signer: the Ledger's for a Ledger wallet,
\* the wallet instance's, or one made of the private key of the session
createSendSigner(a, path) ==
    IF getWalletType(a) = LEDGER THEN Signer(LEDGER, LedgerKey(path))
    ELSE IF a.walletInstance # NoSecret
         THEN Signer(SOFTWARE, getPrivateKey(a.walletInstance, path))
    ELSE IF getSessionMnemonic(a) = NoSecret THEN NoSigner
    ELSE IF StartsWith0x(getSessionMnemonic(a))
         THEN Signer(SOFTWARE, getSessionMnemonic(a))
    ELSE NoSigner

(***************************************************************************)
(* The signers: SoftwareSigner with its ethers.Wallet, LedgerSigner with   *)
(* its transport to the device.                                            *)
(***************************************************************************)
\* The calls of BaseSigner that give a result
SignerCalls == { "getAddress", "signMessage", "signTypedData", "signTransaction" }

\* A LedgerSigner: transport is the number of the transport it holds, 0 for
\* null.  cleared and closing are history: clear() was called, and disconnect()
\* awaits transport.close()
LedgerSigner(derivationPath) ==
    [derivationPath |-> derivationPath, transport |-> 0, eth |-> FALSE,
     cachedAddress |-> "", cleared |-> FALSE, closing |-> FALSE]

\* A SoftwareSigner: wallet is the private key of its ethers.Wallet, or null
SoftwareSigner(privateKey) == [wallet |-> privateKey, cleared |-> FALSE]

\* What a call of a signer came to.  afterClear is history: clear() had been
\* called on the signer before
Called(kind, call, ok, afterClear) ==
    [kind |-> kind, call |-> call, ok |-> ok, afterClear |-> afterClear]

\* A transport TransportWebHID.create() gave.  reopened is history: the signer
\* that asked for it had been cleared
Transport(state, reopened) == [state |-> state, reopened |-> reopened]

\* The signers of a lifetime of the agent and the transports created for
\* them; nothing has been called
NoHid ==
    [ledger |-> << >>, software |-> SoftwareSigner(NoSecret), transports |-> << >>,
     last |-> Called("", "", FALSE, FALSE), nCalls |-> 0]

\* Wallet.createLedgerSigner(path): a new LedgerSigner
createLedgerSigner(h, path) == [h EXCEPT !.ledger = Append(@, LedgerSigner(path))]

\* LedgerSigner.connect: nothing when transport and eth are set, else a
\* transport is created; created says whether TransportWebHID.create() succeeds
connect(h, i, created) ==
    IF h.ledger[i].transport # 0 /\ h.ledger[i].eth THEN [ok |-> TRUE, hid |-> h]
    ELSE IF ~created THEN [ok |-> FALSE, hid |-> h]
    ELSE [ok |-> TRUE,
          hid |-> [h EXCEPT !.transports = Append(@, Transport("open", h.ledger[i].cleared)),
                            !.ledger[i].transport = Len(h.transports) + 1,
                            !.ledger[i].eth = TRUE]]

\* LedgerSigner.getAddress, signMessage, signTypedData and signTransaction:
\* getAddress returns the cached address if there is one; the others and it
\* connect and ask the device, which answers on an open transport when
\* replied says so
LedgerSigner_call(h, i, call, created, replied) ==
    LET afterClear == h.ledger[i].cleared IN
    IF call = "getAddress" /\ h.ledger[i].cachedAddress # ""
    THEN [h EXCEPT !.last = Called(LEDGER, call, TRUE, afterClear)]
    ELSE LET c == connect(h, i, created) IN
         IF ~c.ok \/ ~c.hid.ledger[i].eth
         THEN [c.hid EXCEPT !.last = Called(LEDGER, call, FALSE, afterClear)]
         ELSE IF c.hid.transports[c.hid.ledger[i].transport].state = "open" /\ replied
         THEN [c.hid EXCEPT
                 !.last = Called(LEDGER, call, TRUE, afterClear),
                 !.ledger[i].cachedAddress =
                     IF call = "getAddress" THEN LedgerKey(h.ledger[i].derivationPath)
                     ELSE @]
         ELSE [c.hid EXCEPT !.last = Called(LEDGER, call, FALSE, afterClear)]

\* LedgerSigner.clear, to the await of disconnect: the cached address is
\* dropped; a transport that is held is asked to close
LedgerSigner_clear(h, i) ==
    LET t == h.ledger[i].transport IN
    [h EXCEPT !.ledger[i].cachedAddress = "",
              !.ledger[i].cleared = TRUE,
              !.ledger[i].closing = (t # 0),
              !.transports = IF t # 0 THEN [@ EXCEPT ![t].state = "closed"] ELSE @]

\* LedgerSigner.disconnect after transport.close(): transport and eth are null
disconnect(h, i) ==
    [h EXCEPT !.ledger[i].transport = 0, !.ledger[i].eth = FALSE,
              !.ledger[i].closing = FALSE]

\* SoftwareSigner.getAddress, signMessage, signTypedData and signTransaction:
\* each reads this.wallet, which throws when it is null
SoftwareSigner_call(h, call) ==
    [h EXCEPT !.last = Called(SOFTWARE, call, h.software.wallet # NoSecret,
                              h.software.cleared)]

\* SoftwareSigner.clear: this.wallet = null
SoftwareSigner_clear(h) ==
    [h EXCEPT !.software.wallet = NoSecret, !.software.cleared = TRUE]

(***************************************************************************)
(* chrome.storage.local under handlers that overlap: every await of a      *)
(* handler is a step of its own, and a handler works on the copy of the    *)
(* list it read.  A network is its chainId; a call keeps what it read.     *)
(***************************************************************************)
\* Wallet.deriveAccount(index): the path ends in the index
deriveAccount(index) ==
    [index |-> index, derivationPath |-> << "m/44'/60'/0'/0", index >>]

\* One call of handleMessage on the stored lists: the lists it read, the index
\* it found, and history: found is what handleAddChain's own lookup said,
\* exists what addNetwork's lookup said
StoreCall(type, chainId, pc) ==
    [type |-> type, chainId |-> chainId, pc |-> pc, networks |-> << >>,
     accounts |-> << >>, index |-> -1, found |-> FALSE, exists |-> FALSE,
     response |-> "none"]
IdleCall == StoreCall("", 0, "idle")

\* The stored wallet of a created, unlocked wallet, before a slot has a call
NoStore ==
    [networks |-> DefaultNetworks, accounts |-> << deriveAccount(0) >>,
     currentNetwork |-> 0, walletInstance |-> TRUE,
     calls |-> [s \in 1..MaxHandlers |-> IdleCall], nCalls |-> 0]

\* Array.prototype.some(n => n.chainId === chainId)
some(networks, chainId) == \E i \in DOMAIN networks : networks[i] = chainId

Finish(st, s, response) ==
    [st EXCEPT !.calls[s].pc = "done", !.calls[s].response = response]
Goto(st, s, pc) == [st EXCEPT !.calls[s].pc = pc]

\* StorageService.addNetwork: getNetworks, the check, then the push on the copy
\* and chrome.storage.local.set
addNetwork(st, s) ==
    LET c == st.calls[s] IN
    IF c.pc = "addNetwork.get"
    THEN LET exists == some(st.networks, c.chainId)
             t == [st EXCEPT !.calls[s].networks = st.networks,
                             !.calls[s].exists = exists]
         IN IF exists THEN Finish(t, s, "Network already exists")
            ELSE Goto(t, s, "addNetwork.set")
    ELSE LET t == [st EXCEPT !.networks = Append(c.networks, c.chainId)]
         IN IF c.type = "ADD_NETWORK" THEN Finish(t, s, "added")
            ELSE Goto(t, s, "getNetworks")

\* StorageService.updateDefaultNetworks: the defaults that are not among the
\* networks read are appended to them, and the list is written if any was
updateDefaultNetworks(st, s) ==
    LET c == st.calls[s] IN
    IF c.pc = "updateDefaultNetworks.get"
    THEN LET networksToAdd ==
                 SelectSeq(DefaultNetworks, LAMBDA n : ~some(st.networks, n))
         IN IF Len(networksToAdd) > 0
            THEN Goto([st EXCEPT !.calls[s].networks = st.networks \o networksToAdd],
                      s, "updateDefaultNetworks.set")
            ELSE Finish(st, s, "updated")
    ELSE Finish([st EXCEPT !.networks = c.networks], s, "updated")

\* handleAddChain, await by await: the lookup, then either the switch to the
\* entry found or addNetwork, a second getNetworks and the switch to the new one
handleAddChain_step(st, s) ==
    LET c == st.calls[s] IN
    CASE c.pc = "handleAddChain.get" ->
            LET networkIndex == findIndex(st.networks, c.chainId) IN
            IF networkIndex # -1
            THEN Goto([st EXCEPT !.calls[s].found = TRUE,
                                 !.calls[s].index = networkIndex],
                      s, "setCurrentNetwork")
            ELSE Goto(st, s, "addNetwork.get")
      [] c.pc \in { "addNetwork.get", "addNetwork.set" } -> addNetwork(st, s)
      [] c.pc = "getNetworks" ->
            LET newNetworkIndex == findIndex(st.networks, c.chainId) IN
            IF newNetworkIndex # -1
            THEN Goto([st EXCEPT !.calls[s].index = newNetworkIndex],
                      s, "setCurrentNetwork")
            ELSE Finish(st, s, "added")
      [] OTHER ->
            Finish([st EXCEPT !.currentNetwork = c.index], s,
                   IF c.found THEN "existing" ELSE "added")

\* createWallet of the agent over StorageService.createWallet: the wallet with
\* its first account, the state, the default networks, then walletInstance
createWallet_step(st, s) ==
    LET c == st.calls[s] IN
    CASE c.pc = "createWallet.wallet" ->
            Goto([st EXCEPT !.accounts = << deriveAccount(0) >>], s, "createWallet.state")
      [] c.pc = "createWallet.state" ->
            Goto([st EXCEPT !.currentNetwork = 0], s, "initializeDefaultNetworks")
      [] OTHER ->
            Finish([st EXCEPT !.networks = DefaultNetworks, !.walletInstance = TRUE],
                   s, "created")

\* addAccount of the agent over StorageService.addAccount: the index is the
\* length of the accounts read; the account is pushed on the wallet read next
addAccount_step(st, s) ==
    LET c == st.calls[s] IN
    CASE c.pc = "addAccount.start" ->
            IF ~st.walletInstance THEN Finish(st, s, "Wallet is locked")
            ELSE Goto(st, s, "getAccounts")
      [] c.pc = "getAccounts" ->
            Goto([st EXCEPT !.calls[s].index = Len(st.accounts)], s, "getWallet")
      [] c.pc = "getWallet" ->
            Goto([st EXCEPT !.calls[s].accounts =
                                Append(st.accounts, deriveAccount(c.index))],
                 s, "setWallet")
      [] OTHER -> Finish([st EXCEPT !.accounts = c.accounts], s, "added")

\* The first await of each handler
FirstStep(type) ==
    CASE type = "ADD_NETWORK" -> "addNetwork.get"
      [] type = "ADD_CHAIN" -> "handleAddChain.get"
      [] type = "UPDATE_DEFAULT_NETWORKS" -> "updateDefaultNetworks.get"
      [] type = "CREATE_WALLET" -> "createWallet.wallet"
      [] OTHER -> "addAccount.start"

\* handleMessage on the stored lists: the next await of the call in slot s
StoreStep(st, s) ==
    LET type == st.calls[s].type IN
    CASE type = "ADD_NETWORK" -> addNetwork(st, s)
      [] type = "ADD_CHAIN" -> handleAddChain_step(st, s)
      [] type = "UPDATE_DEFAULT_NETWORKS" -> updateDefaultNetworks(st, s)
      [] type = "CREATE_WALLET" -> createWallet_step(st, s)
      [] OTHER -> addAccount_step(st, s)

(***************************************************************************)
(* One LedgerSigner under calls that overlap: connect() and disconnect()   *)
(* from one await to the next.  transport is the number of the transport   *)
(* the signer holds (0 for null); transports is history: for each          *)
(* transport opened, how many times close() was called on it.              *)
(***************************************************************************)
\* calls made on the signer
MaxUsbCalls == 3

\* A call on the signer: what was called, where it waits, the transport its Eth
\* object or its close() works on, and how it ended
UsbCall(kind, pc) == [kind |-> kind, pc |-> pc, t |-> 0, ok |-> TRUE]

NoUsb ==
    [transport |-> 0, eth |-> FALSE, cachedAddress |-> FALSE, transports |-> << >>,
     calls |-> [c \in 1..MaxUsbCalls |-> UsbCall("", "idle")], nCalls |-> 0]

\* connect() up to its await, and the signing call if the signer is connected:
\* TransportWebHID.create() is called unless both transport and eth are set
connect_start(u, c) ==
    IF u.transport # 0 /\ u.eth
    THEN [u EXCEPT !.calls[c].pc = "device", !.calls[c].t = u.transport]
    ELSE [u EXCEPT !.calls[c].pc = "create"]

\* TransportWebHID.create() has opened a transport, or has failed: transport
\* and eth are assigned and the signing call is made on the new Eth object
connect_resume(u, c, created) ==
    IF created
    THEN LET t == Len(u.transports) + 1 IN
         [u EXCEPT !.transports = Append(@, [closes |-> 0]),
                   !.transport = t, !.eth = TRUE,
                   !.calls[c].pc = "device", !.calls[c].t = t]
    ELSE [u EXCEPT !.calls[c].pc = "done", !.calls[c].ok = FALSE]

\* The device has answered, or the transport was closed under the call
device_resume(u, c) ==
    [u EXCEPT !.calls[c].pc = "done",
              !.calls[c].ok = (u.transports[u.calls[c].t].closes = 0)]

\* disconnect() up to its await: transport.close() is called if a transport is held
disconnect_start(u, c) ==
    IF u.transport # 0
    THEN [u EXCEPT !.transports[u.transport].closes = @ + 1,
                   !.calls[c].pc = "close", !.calls[c].t = u.transport]
    ELSE [u EXCEPT !.calls[c].pc = "done"]

\* close() is done: transport and eth are set to null
disconnect_resume(u, c) ==
    [u EXCEPT !.transport = 0, !.eth = FALSE, !.calls[c].pc = "done"]

\* clear(): the cached address is dropped and disconnect() is called, not awaited
clear_start(u, c) == disconnect_start([u EXCEPT !.cachedAddress = FALSE], c)

(***************************************************************************)
(* SpecProvider: the page, the bridge and the agent.                       *)
(***************************************************************************)
WalletKinds == { "mnemonic", "privateKey", "ledger" }

\* The accounts of a wallet of the kind: derived ones, one more added after the
\* first, or the one of the imported private key
AccountsOf(kind) ==
    IF kind = "privateKey" THEN << Account(Addr0, "imported") >>
    ELSE << Account(Addr0, "m/44'/60'/0'/0/0"), Account(Addr1, "m/44'/60'/0'/0/1") >>

\* The wallet as created with one more account added, unlocked
AgentUnlocked ==
    [walletKind |-> "mnemonic",
     accounts |-> AccountsOf("mnemonic"),
     networks |-> DefaultNetworks,
     state |-> State(FALSE, 0, 0),
     addressSpoof |-> SpoofOff,
     session |-> Session(TRUE, Mnemonic),
     walletInstance |-> Mnemonic,
     netChanges |-> 0]

Slots == 1..MaxHandlers

\* A run of the page and the agent: its provider and its agent
Run(q, a) == [p |-> q, ag |-> a]

\* window.postMessage of each message of a set, in some order (a set of one here)
RECURSIVE PostAll(_, _)
PostAll(queue, msgs) ==
    IF msgs = {} THEN queue
    ELSE LET m == CHOOSE x \in msgs : TRUE
         IN PostAll(Append(queue, m), msgs \ {m})

\* The page has just loaded the provider; the wallet is unlocked
InitProvider ==
    /\ p = ConstructedProvider.p
    /\ windowMsgs = PostAll(<< >>, ConstructedProvider.post)
    /\ agentInbox = {}
    /\ ag = AgentUnlocked
    /\ nRequests = 0
    /\ nUi = 0
    /\ nDispatched = 0
    /\ threads = [s \in Slots |-> IdleThread]
    /\ answered = {}
    /\ pageSeen = {}
    /\ restarted = FALSE
    /\ nMsgs = 0
    /\ twin = Run(NewProvider, AgentUnlocked)
    /\ nTwin = 0
    /\ wrap = NoWrap
    /\ send = NoSend
    /\ hid = NoHid
    /\ store = NoStore
    /\ usb = NoUsb


\* The page calls provider.request
Request(method, n, hex, max) ==
    /\ nRequests < max
    /\ nRequests' = nRequests + 1
    /\ LET r == request(p, method, n, hex) IN
         /\ p' = r.p
         /\ windowMsgs' = PostAll(windowMsgs, r.post)
    /\ UNCHANGED << agentInbox, ag, nUi, nDispatched >>
    /\ UNCHANGED << agentVars, twinVars, wrapVars >>

\* The window dispatches the oldest posted message to its listeners: the
\* provider's and the bridge's
WindowDispatchUpTo(max) ==
    /\ windowMsgs # << >>
    /\ nDispatched < max
    /\ nDispatched' = nDispatched + 1
    /\ LET m == Head(windowMsgs)
           r == ProviderOnMessage(p, m)
       IN /\ p' = r.p
          /\ windowMsgs' = PostAll(Tail(windowMsgs), r.post)
          /\ agentInbox' = agentInbox \cup BridgeForward(m)
    /\ UNCHANGED << ag, nRequests, nUi >>
    /\ UNCHANGED << agentVars, twinVars, wrapVars >>

WindowDispatch == WindowDispatchUpTo(MaxDispatched)

\* The agent handles a forwarded message and the bridge posts the response; the
\* bridge's storage listener runs for what the handler stored
AgentRespond(x, rpcOk) ==
    /\ x \in agentInbox
    /\ LET o == handleMessage(ag, x.type, x.payload, x.config, rpcOk) IN
         /\ ag' = o.ag
         /\ windowMsgs' = Append(PostAll(windowMsgs, BridgeOnStorageChanged(ag, o.ag)),
                                 BridgeResponse(x, o.response))
    /\ agentInbox' = agentInbox \ {x}
    /\ UNCHANGED << p, nRequests, nUi, nDispatched >>
    /\ UNCHANGED << agentVars, twinVars, wrapVars >>

\* chrome.runtime.sendMessage throws in the bridge: its catch posts an error response
BridgeSendFails(x) ==
    /\ x \in agentInbox
    /\ agentInbox' = agentInbox \ {x}
    /\ windowMsgs' = Append(windowMsgs, BridgeResponse(x, Err("Unknown error")))
    /\ UNCHANGED << p, ag, nRequests, nUi, nDispatched >>
    /\ UNCHANGED << agentVars, twinVars, wrapVars >>

\* A timeout of sendMessage fires
Timeout(t) ==
    /\ t \in p.timers
    /\ LET r == OnTimeout(p, t) IN
         /\ p' = r.p
         /\ windowMsgs' = PostAll(windowMsgs, r.post)
    /\ UNCHANGED << agentInbox, ag, nRequests, nUi, nDispatched >>
    /\ UNCHANGED << agentVars, twinVars, wrapVars >>

\* The wallet UI sends a message to the agent
UiUpTo(type, n, config, max) ==
    /\ nUi < max
    /\ nUi' = nUi + 1
    /\ LET o == handleMessage(ag, type, Payload(n, NoHex), config, TRUE) IN
         /\ ag' = o.ag
         /\ windowMsgs' = PostAll(windowMsgs, BridgeOnStorageChanged(ag, o.ag))
    /\ UNCHANGED << p, agentInbox, nRequests, nDispatched >>
    /\ UNCHANGED << agentVars, twinVars, wrapVars >>

Ui(type, n, config) == UiUpTo(type, n, config, MaxUi)

\* The request protocol: read-only calls, their responses and timeouts
NextProtocol ==
    \/ \E n \in RpcTokens : Request("eth_call", n, NoHex, MaxRequests)
    \/ WindowDispatch
    \/ \E x \in agentInbox, rpcOk \in BOOLEAN : AgentRespond(x, rpcOk)
    \/ \E x \in agentInbox : BridgeSendFails(x)
    \/ \E t \in p.timers : Timeout(t)

SpecProtocol == InitProvider /\ [][NextProtocol]_vars

\* The browser runs every timer that was set
FairProtocol == SpecProtocol /\ WF_vars(\E t \in p.timers : Timeout(t))

\* The calls of sendMessage made so far, and the settlements of call k's promise
Calls == 1..Len(p.calls)
Settlements(k) == p.settled[k]
IsPending(k) ==
    /\ p.calls[k].id \in DOMAIN p.pendingRequests
    /\ p.pendingRequests[p.calls[k].id].call = k

\* C1: the promise of every sendMessage call is settled at most once, and its
\* entry is in the pending map exactly as long as it has not been settled: the
\* response or the timeout that settles it removes the entry, and a response
\* that comes later, or a second one with the same id, settles nothing.
C1_SettledOnce ==
    \A k \in Calls :
        /\ Len(Settlements(k)) <= 1
        /\ (Settlements(k) = << >>) <=> IsPending(k)

\* C1 happens: a call was settled by its timeout, and a response with its id
\* came afterwards and found no entry
C1_LateResponseIgnored ==
    \E k \in Calls :
        /\ Len(Settlements(k)) = 1
        /\ Settlements(k)[1].via = NoId
        /\ p.calls[k].id \in p.ignored
        /\ ~IsPending(k)

\* C2: an entry stays in the pending map only while its timeout is armed, and
\* with the timers running the map is eventually empty for good, every call
\* settled, whether or not the bridge and the agent ever reply.
C2_EventuallySettled ==
    /\ [](\A id \in DOMAIN p.pendingRequests : \E t \in p.timers : t.id = id)
    /\ <>[](DOMAIN p.pendingRequests = {} /\ \A k \in Calls : Settlements(k) # << >>)

\* C2 happens: nothing was ever relayed, and every call, the page's included,
\* was settled by its timeout
C2_AllTimedOut ==
    /\ nDispatched = 0
    /\ nRequests = MaxRequests
    /\ DOMAIN p.pendingRequests = {}
    /\ \A k \in Calls : Len(Settlements(k)) = 1 /\ Settlements(k)[1].via = NoId
                        /\ Settlements(k)[1].error = "Request timeout"

\* The data the agent answers a call of this type and payload with
AnswerFits(call, data) ==
    CASE call.type = "RPC_CALL" -> data = DataRpc(call.payload.n)
      [] call.type = "GET_ADDRESS_SPOOF_CONFIG" -> data.tag = "spoof"
      [] call.type = "GET_CURRENT_NETWORK" -> data.tag = "network"
      [] OTHER -> TRUE

\* C3: the ids of the calls are strictly increasing, so no two outstanding
\* calls share one; and a call is settled by a response only through the
\* response tagged with its own id, and resolves with the data of the answer
\* to its own message.
C3_MatchedById ==
    /\ \A j, k \in Calls : j < k => p.calls[j].id < p.calls[k].id
    /\ \A j, k \in Calls : (j # k /\ IsPending(j) /\ IsPending(k))
                             => p.calls[j].id # p.calls[k].id
    /\ \A k \in Calls : \A i \in 1..Len(Settlements(k)) :
          LET s == Settlements(k)[i] IN
            /\ s.via # NoId => s.via = p.calls[k].id
            /\ s.how = "resolve" => AnswerFits(p.calls[k], s.data)

\* C3 happens: two calls were outstanding together and the later one was
\* resolved first, the response to the earlier one still on its way
C3_AnsweredOutOfOrder ==
    \E j, k \in Calls :
        /\ j < k
        /\ IsPending(j)
        /\ Len(Settlements(k)) = 1 /\ Settlements(k)[1].how = "resolve"
        /\ p.calls[k].type = "RPC_CALL"
        /\ \E i \in 1..Len(windowMsgs) :
              /\ windowMsgs[i].name = "RESPONSE"
              /\ windowMsgs[i].id = p.calls[j].id

\* Accounts, chains and the spoof configuration: the page's requests and the
\* wallet UI's changes
NextEvents ==
    \/ \E hex \in HexInputs : Request("wallet_switchEthereumChain", 0, hex, MaxPageCalls)
    \/ \E hex \in HexInputs : Request("wallet_addEthereumChain", 0, hex, MaxPageCalls)
    \/ Request("eth_requestAccounts", 0, NoHex, MaxPageCalls)
    \/ WindowDispatch
    \/ \E x \in agentInbox : AgentRespond(x, TRUE)
    \/ \E i \in 0..(Len(ag.networks) - 1) : Ui("SET_CURRENT_NETWORK", i, SpoofOff)
    \/ \E i \in 0..(Len(ag.accounts) - 1) : Ui("SET_CURRENT_ACCOUNT", i, SpoofOff)
    \/ \E c \in SpoofConfigs : Ui("SET_ADDRESS_SPOOF_CONFIG", 0, c)

SpecEvents == InitProvider /\ [][NextEvents]_vars

\* C9: accountsChanged is emitted exactly when the address the provider
\* reports (eth_accounts) changes: once for a change, never without one.
C9_EmitsOnlyOnChange ==
    [][ /\ p'.accountsChangedCount \in { p.accountsChangedCount,
                                         p.accountsChangedCount + 1 }
        /\ (p'.accountsChangedCount # p.accountsChangedCount)
              <=> (eth_accounts(p') # eth_accounts(p)) ]_vars

\* Nothing that could still change the provider's chain is under way: the
\* provider has initialized, no request is pending, and no message other than
\* a response nobody awaits is in the window or with the agent
NothingUnderWay ==
    /\ p.chainId # NoHex
    /\ DOMAIN p.pendingRequests = {}
    /\ \A i \in 1..Len(windowMsgs) : windowMsgs[i].name = "RESPONSE"
    /\ \A x \in agentInbox : x.type = "RESPONSE"

\* C10: once a change of the agent's active network has been carried through,
\* the provider has emitted chainChanged for it and eth_chainId is the chain
\* id of the agent's current network.
C10_ChainFollowsAgent ==
    NothingUnderWay =>
        /\ ParseInt(eth_chainId(p), 16) = getCurrentNetwork(ag)
        /\ p.chainChangedCount >= ag.netChanges

\* The calls of request() among the calls of sendMessage: initialize() makes
\* the other two
IsRequest(k) == p.calls[k].type \notin { "GET_ADDRESS_SPOOF_CONFIG", "GET_CURRENT_NETWORK" }

\* The forwarded messages that are replied to in this step
Replied == agentInbox \ agentInbox'

\* C11: wallet_switchEthereumChain for a chain id that is not among the stored
\* networks: the agent answers with a failure and changes nothing it stores,
\* its current network included; and when the failure reaches the provider,
\* request() is rejected with code 4902, chainId and networkVersion stay as
\* they were and no chainChanged is emitted.
C11_UnknownChainRejected ==
    [][ /\ \A x \in Replied :
              (/\ x.type = "SWITCH_CHAIN"
               /\ findIndex(ag.networks, ParseInt(x.payload.hex, 16)) = -1)
              => /\ ag' = ag
                 /\ getCurrentNetwork(ag') = getCurrentNetwork(ag)
                 /\ ~windowMsgs'[Len(windowMsgs')].response.success
        /\ \A k \in Calls :
              (/\ p.calls[k].type = "SWITCH_CHAIN"
               /\ p.settled[k] = << >>
               /\ p'.settled[k] # << >>
               /\ p'.settled[k][1].how = "reject")
              => /\ p'.rejected[k] = ChainNotAvailable
                 /\ p'.chainId = p.chainId
                 /\ p'.networkVersion = p.networkVersion
                 /\ p'.chainChangedCount = p.chainChangedCount ]_vars

\* C11 happens: a switch to a chain the agent does not store was rejected with
\* 4902 through the agent's answer, the agent still on the first network and
\* the provider's chain as it was
C11_SwitchToUnknownRejected ==
    \E k \in Calls :
        /\ p.calls[k].type = "SWITCH_CHAIN"
        /\ p.calls[k].payload.hex = ToHex(ChainOther)
        /\ findIndex(ag.networks, ChainOther) = -1
        /\ Len(Settlements(k)) = 1
        /\ Settlements(k)[1].how = "reject"
        /\ Settlements(k)[1].via = p.calls[k].id
        /\ p.rejected[k] = ChainNotAvailable
        /\ getCurrentNetwork(ag) = ChainMainnet
        /\ p.chainChangedCount = 0

\* Every method of the request table that sends a message, with the replies,
\* the failures of the bridge and the timeouts
NextErrors ==
    \/ \E n \in RpcTokens : Request("eth_call", n, NoHex, MaxRequests)
    \/ Request("eth_requestAccounts", 0, NoHex, MaxRequests)
    \/ Request("personal_sign", 1, NoHex, MaxRequests)
    \/ \E hex \in HexInputs \cup { NoHex } :
          Request("eth_sendTransaction", 1, hex, MaxRequests)
    \/ \E hex \in HexInputs : Request("wallet_switchEthereumChain", 0, hex, MaxRequests)
    \/ \E hex \in HexInputs : Request("wallet_addEthereumChain", 0, hex, MaxRequests)
    \/ WindowDispatch
    \/ \E x \in agentInbox, rpcOk \in BOOLEAN : AgentRespond(x, rpcOk)
    \/ \E x \in agentInbox : BridgeSendFails(x)
    \/ \E t \in p.timers : Timeout(t)

SpecErrors == InitProvider /\ [][NextErrors]_vars

\* C12: an eth_sendTransaction call for a chain id the agent does not store,
\* made with no wallet_switchEthereumChain before it, is rejected with 4902
\* once the agent has answered it.
C12_SendForUnknownChainRejected ==
    \A k \in Calls :
        (/\ p.calls[k].type = "SEND_TRANSACTION"
         /\ p.calls[k].payload.hex # NoHex
         /\ findIndex(ag.networks, ParseInt(p.calls[k].payload.hex, 16)) = -1
         /\ Settlements(k) # << >>
         /\ Settlements(k)[1].via = p.calls[k].id)
        => /\ Settlements(k)[1].how = "reject"
           /\ p.rejected[k] = ChainNotAvailable

\* C13: a call of request() that fails or times out is rejected with 4001,
\* whatever the method; only wallet_switchEthereumChain answered by the agent
\* that the chain is not found is rejected with 4902.
C13_FailuresRejectedWith4001 ==
    \A k \in Calls :
        (/\ IsRequest(k)
         /\ Settlements(k) # << >>
         /\ Settlements(k)[1].how = "reject")
        => p.rejected[k] =
              IF /\ p.calls[k].type = "SWITCH_CHAIN"
                 /\ Settlements(k)[1].error = "Chain not found. Please add it first."
              THEN ChainNotAvailable
              ELSE RequestFailed

\* The replies to the forwarded messages always come: the agent's listener
\* answers every message, and chrome.runtime.sendMessage throws in the bridge
\* when the agent cannot be reached
FairBridge ==
    SpecProtocol /\ WF_vars(\E x \in agentInbox : AgentRespond(x, TRUE) \/ BridgeSendFails(x))

\* The responses among the messages posted on the window
IsResponse(m) == m.pfx = Prefix /\ m.name = "RESPONSE"
NResponses(w) == Cardinality({ i \in 1..Len(w) : IsResponse(w[i]) })
\* The two forms of the response envelope
IsEnvelope(r) == \/ r.success /\ r.error = ""
                 \/ ~r.success /\ r.data = NoData /\ r.error # ""

\* C14: for a message it forwarded the bridge posts one response, tagged with
\* the id of that message and holding an envelope of one of the two forms; it
\* posts no response otherwise; and every forwarded message gets its response.
C14_OneResponsePerForward ==
    /\ [][ /\ Cardinality(Replied) <= 1
           /\ \A x \in Replied :
                 LET m == windowMsgs'[Len(windowMsgs')] IN
                   /\ IsResponse(m)
                   /\ m.id = x.id
                   /\ IsEnvelope(m.response)
                   /\ NResponses(windowMsgs') = NResponses(windowMsgs) + 1
           /\ Replied = {} => NResponses(windowMsgs') <= NResponses(windowMsgs) ]_vars
    /\ <>[](agentInbox = {})

\* C14 happens: the page's call was answered by the envelope the bridge builds
\* when forwarding throws, and another call by the agent's own answer
C14_BothEnvelopesDelivered ==
    /\ \E k \in Calls : /\ IsRequest(k)
                        /\ Len(Settlements(k)) = 1
                        /\ Settlements(k)[1].via = p.calls[k].id
                        /\ Settlements(k)[1].error = "Unknown error"
    /\ \E k \in Calls : /\ Len(Settlements(k)) = 1
                        /\ Settlements(k)[1].via = p.calls[k].id
                        /\ Settlements(k)[1].how = "resolve"

(***************************************************************************)
(* SpecAgent: the agent's handlers as the listener runs them, each started *)
(* when its message arrives, whatever the others are doing.                *)
(***************************************************************************)
\* A stored wallet of one of the three kinds and nothing unlocked: the browser
\* was started, the session store is empty and the agent holds no wallet
AgentLocked(kind) ==
    [AgentUnlocked EXCEPT !.walletKind = kind,
                          !.accounts = AccountsOf(kind),
                          !.state = State(TRUE, 0, 0),
                          !.session = NoSession,
                          !.walletInstance = NoSecret]


InitAgent ==
    /\ ag \in { AgentLocked(kind) : kind \in WalletKinds }
    /\ threads = [s \in Slots |-> IdleThread]
    /\ answered = {}
    /\ pageSeen = {}
    /\ restarted = FALSE
    /\ nMsgs = 0
    /\ twin = Run(NewProvider, AgentUnlocked)
    /\ nTwin = 0
    /\ wrap = NoWrap
    /\ send = NoSend
    /\ hid = NoHid
    /\ store = NoStore
    /\ usb = NoUsb
    /\ p = NewProvider
    /\ windowMsgs = << >>
    /\ agentInbox = {}
    /\ nRequests = 0
    /\ nUi = 0
    /\ nDispatched = 0

Busy(s) == threads[s].pc # "idle"

\* What of the agent a handler can change: the wallet instance and the stores
AgentData(a) == << a.walletInstance, a.session, a.state, a.accounts, a.networks >>

\* The history fields of the calls under way, after a step of call s that
\* took the agent from a to b
Observe(ths, s, a, b) ==
    [t \in Slots |->
        IF ths[t].pc = "idle" THEN ths[t]
        ELSE [ths[t] EXCEPT
                !.lockedAll = @ /\ isLocked(b),
                !.unlockedAll = @ /\ ~isLocked(b),
                !.disturbed = @ \/ (t # s /\ AgentData(a) # AgentData(b))]]

\* An answered call, as history
Answer(th) ==
    [type |-> th.type, origin |-> th.origin, response |-> th.response,
     started |-> th.started, lockedAll |-> th.lockedAll,
     unlockedAll |-> th.unlockedAll, afterRestart |-> th.afterRestart,
     disturbed |-> th.disturbed]

\* The listener's then/catch: sendResponse, and for a message of the page the
\* bridge's post of the response.  r is the step that was taken by call s.
Proceed(s, r) ==
    LET ths == Observe([threads EXCEPT ![s] = r.th], s, ag, r.ag) IN
    /\ ag' = r.ag
    /\ IF ths[s].pc = "done"
       THEN /\ threads' = [ths EXCEPT ![s] = IdleThread]
            /\ answered' = answered \cup { Answer(ths[s]) }
            /\ pageSeen' = IF ths[s].origin = "page"
                           THEN pageSeen \cup { BridgeResponse(ths[s], ths[s].response) }
                           ELSE pageSeen
       ELSE /\ threads' = ths
            /\ UNCHANGED << answered, pageSeen >>

\* A message arrives and the listener calls handleMessage, which runs to its
\* first await
Arrive(s, type, origin, id, n) ==
    /\ nMsgs < MaxMessages
    /\ nMsgs' = nMsgs + 1
    /\ ~Busy(s)
    /\ \A t \in Slots : t < s => Busy(t)
    /\ restarted' = (restarted /\ type # "UNLOCK_WALLET")
    /\ Proceed(s, ensureWalletInstance(ag,
                     [Thread(type, origin, id, n) EXCEPT
                         !.afterRestart = restarted /\ type # "UNLOCK_WALLET",
                         !.lockedAll = isLocked(ag),
                         !.unlockedAll = ~isLocked(ag)]))
    /\ UNCHANGED << providerVars, twinVars, wrapVars >>

\* A script of the page posts a message of any type with the provider's
\* prefix, and the bridge forwards it
PagePosts(s, type, n) ==
    \E x \in BridgeForward(Msg(Prefix, type, 1, Payload(n, NoHex), NoResp, SpoofOff)) :
        Arrive(s, x.type, "page", x.id, x.payload.n)

\* The wallet UI sends a message
UiSends(s, type, n) == Arrive(s, type, "ui", NoId, n)

\* What a call awaits completes
Resume(s) ==
    /\ Busy(s)
    /\ Proceed(s, HandlerStep(ag, threads[s]))
    /\ UNCHANGED << restarted, nMsgs >>
    /\ UNCHANGED << providerVars, twinVars, wrapVars >>

\* The browser ends the idle service worker and starts it again for the next
\* message: the memory is lost, the stores are kept
Restart ==
    /\ \A s \in Slots : ~Busy(s)
    /\ ag.walletInstance # NoSecret \/ ~restarted
    /\ ag' = [ag EXCEPT !.walletInstance = NoSecret]
    /\ restarted' = TRUE
    /\ UNCHANGED << threads, answered, pageSeen, nMsgs >>
    /\ UNCHANGED << providerVars, twinVars, wrapVars >>

NextAgent ==
    \/ \E s \in Slots, type \in SigningTypes : PagePosts(s, type, 1)
    \/ \E s \in Slots : PagePosts(s, "GET_MNEMONIC", 0)
    \/ \E s \in Slots : UiSends(s, "UNLOCK_WALLET", 0)
    \/ \E s \in Slots : UiSends(s, "LOCK_WALLET", 0)
    \/ \E s \in Slots, i \in 0..(Len(ag.networks) - 1) : UiSends(s, "SET_CURRENT_NETWORK", i)
    \/ \E s \in Slots : Resume(s)
    \/ Restart

SpecAgent == InitAgent /\ [][NextAgent]_vars

\* C4: no response the bridge posts to the page carries the mnemonic or a
\* private key, whatever message a script of the page posted.
C4_NoSecretToPage ==
    \A m \in pageSeen : m.response.data.s \notin { Mnemonic, PrivateKey }

\* C5: a signing request that finds the wallet locked, and locked it stays, is
\* answered with an error, and no signer is asked to sign, whatever the kind
\* of the wallet.
C5_LockedSigningFails ==
    \A r \in answered :
        (r.type \in SigningTypes /\ r.lockedAll) => (~r.response.success /\ ~r.started)

\* C6: a signing request that comes after the agent was recreated, with no
\* UNLOCK_WALLET since and the session unlocked all the while, succeeds.
C6_RestoredAfterRestart ==
    \A r \in answered :
        (r.type \in SigningTypes /\ r.afterRestart /\ r.unlockedAll) => r.response.success

\* C6 happens: the agent of a mnemonic wallet was recreated, a signing request
\* came and was answered with a signature, the wallet instance restored
C6_SignedAfterRestart ==
    /\ ag.walletKind = "mnemonic"
    /\ ag.walletInstance = Mnemonic
    /\ restarted
    /\ \E r \in answered :
          /\ r.type \in SigningTypes /\ r.afterRestart /\ r.unlockedAll
          /\ r.response.success /\ r.response.data.tag = "signature"

\* C7: at most one handler is under way at a time, and no handler has the
\* wallet instance or the stored data changed by another between two of its steps.
C7_HandlersDoNotOverlap ==
    /\ Cardinality({ s \in Slots : Busy(s) }) <= 1
    /\ \A s \in Slots : ~threads[s].disturbed
    /\ \A r \in answered : ~r.disturbed

(***************************************************************************)
(* SpecSpoof: two runs of the page, the bridge and the agent side by side, *)
(* given the same requests and the same wallet-UI actions, and each its    *)
(* own spoof configuration.  The first run is p and ag, the second twin.   *)
(***************************************************************************)
\* The messages the provider posted go through the bridge to the agent, whose
\* handlers run one after the other, and the responses come back to the
\* provider, until the provider has posted nothing more.  (The bridge's relay
\* of the responses themselves is answered with errors that find no entry.)
RECURSIVE RoundTrip(_, _)
RoundTrip(run, post) ==
    IF post = {} THEN run
    ELSE LET m == CHOOSE x \in post : TRUE
             x == CHOOSE y \in BridgeForward(m) : TRUE
             o == handleMessage(run.ag, x.type, x.payload, x.config, TRUE)
             r == ProviderOnMessage(run.p, BridgeResponse(x, o.response))
         IN RoundTrip(Run(r.p, o.ag), (post \ {m}) \cup r.post)

\* provider.request in a run, carried through
RunRequest(run, method, n) ==
    LET r == request(run.p, method, n, NoHex)
    IN RoundTrip(Run(r.p, run.ag), r.post)

\* A message of the wallet UI in a run; the bridge's storage listener tells the
\* provider of a new spoof configuration
RECURSIVE Deliver(_, _)
Deliver(q, msgs) ==
    IF msgs = {} THEN q
    ELSE LET m == CHOOSE x \in msgs : TRUE
         IN Deliver(ProviderOnMessage(q, m).p, msgs \ {m})
RunUi(run, type, n, config) ==
    LET o == handleMessage(run.ag, type, Payload(n, NoHex), config, TRUE)
    IN Run(Deliver(run.p, BridgeOnStorageChanged(run.ag, o.ag)), o.ag)

\* A page loaded with the wallet unlocked and the spoof configuration c stored
LoadedRun(kind, c) ==
    LET a == [AgentUnlocked EXCEPT
                 !.walletKind = kind,
                 !.accounts = AccountsOf(kind),
                 !.addressSpoof = c,
                 !.session = Session(TRUE, IF kind = "ledger" THEN NoSecret
                                           ELSE IF kind = "privateKey" THEN PrivateKey
                                           ELSE Mnemonic),
                 !.walletInstance = IF kind = "mnemonic" THEN Mnemonic ELSE NoSecret]
    IN RoundTrip(Run(ConstructedProvider.p, a), ConstructedProvider.post)

InitSpoof ==
    /\ \E kind \in WalletKinds, c1, c2 \in SpoofConfigs :
          /\ p = LoadedRun(kind, c1).p
          /\ ag = LoadedRun(kind, c1).ag
          /\ twin = LoadedRun(kind, c2)
    /\ nTwin = 0
    /\ wrap = NoWrap
    /\ send = NoSend
    /\ hid = NoHid
    /\ store = NoStore
    /\ usb = NoUsb
    /\ windowMsgs = << >>
    /\ agentInbox = {}
    /\ nRequests = 0
    /\ nUi = 0
    /\ nDispatched = 0
    /\ threads = [s \in Slots |-> IdleThread]
    /\ answered = {}
    /\ pageSeen = {}
    /\ restarted = FALSE
    /\ nMsgs = 0

SpoofStep(run1, run2) ==
    /\ nTwin < MaxTwinSteps
    /\ nTwin' = nTwin + 1
    /\ p' = run1.p
    /\ ag' = run1.ag
    /\ twin' = run2
    /\ UNCHANGED << windowMsgs, agentInbox, nRequests, nUi, nDispatched >>
    /\ UNCHANGED << agentVars, wrapVars >>

\* The page makes the same request in both runs
BothRequest(method, n) ==
    SpoofStep(RunRequest(Run(p, ag), method, n), RunRequest(twin, method, n))

\* The user does the same in the wallet UI of both runs
BothUi(type, n) ==
    SpoofStep(RunUi(Run(p, ag), type, n, SpoofOff), RunUi(twin, type, n, SpoofOff))

\* The user sets a spoof configuration in each run
EachSetsSpoof(c1, c2) ==
    SpoofStep(RunUi(Run(p, ag), "SET_ADDRESS_SPOOF_CONFIG", 0, c1),
              RunUi(twin, "SET_ADDRESS_SPOOF_CONFIG", 0, c2))

NextSpoof ==
    \/ BothRequest("eth_requestAccounts", 0)
    \/ BothRequest("personal_sign", 1)
    \/ BothRequest("eth_sendTransaction", 1)
    \/ \E i \in 0..(Len(ag.accounts) - 1) : BothUi("SET_CURRENT_ACCOUNT", i)
    \/ \E c1, c2 \in SpoofConfigs : EachSetsSpoof(c1, c2)

SpecSpoof == InitSpoof /\ [][NextSpoof]_vars

\* C8: the two runs differ in nothing but the spoof configuration and the
\* address the provider reports: every signing request was answered in both
\* with the same signature of the same signer, and the agents' wallets and
\* accounts are the same.
C8_SpoofChangesOnlyAddress ==
    /\ p.calls = twin.p.calls
    /\ \A k \in Calls :
          p.calls[k].type # "GET_ADDRESS_SPOOF_CONFIG" => p.settled[k] = twin.p.settled[k]
    /\ [ag EXCEPT !.addressSpoof = SpoofOff] = [twin.ag EXCEPT !.addressSpoof = SpoofOff]
    /\ p.realAddress = twin.p.realAddress
    /\ eth_chainId(p) = eth_chainId(twin.p)

\* C8 happens: the runs report different addresses, and a signing request was
\* answered with a signature in both
C8_SignedUnderDifferentAddresses ==
    /\ eth_accounts(p) # eth_accounts(twin.p)
    /\ eth_accounts(p) # << >> /\ eth_accounts(twin.p) # << >>
    /\ \E k \in Calls :
          /\ p.calls[k].type \in SigningTypes
          /\ Len(p.settled[k]) = 1
          /\ p.settled[k][1].how = "resolve"
          /\ p.settled[k][1].data.tag = "signature"

(***************************************************************************)
(* SpecWrap: a transaction is given to the wrapping engine, and its call   *)
(* data to the decoders.                                                   *)
(***************************************************************************)
\* An address of 20 bytes, every byte the two digits a, b
Address(a, b) == Str0x \o [i \in 1..40 |-> IF i % 2 = 1 THEN a ELSE b]
TokenAddr == Address("c", "0")
ProtocolAddr == Address("a", "b")
OtherAddr == Address("d", "e")
ModuleAddr == Address("1", "2")

\* The same hex string with its letters in upper case, and with those of every
\* second digit only (the spelling of an address with its checksum)
UpperHex(s) ==
    [i \in 1..Len(s) |->
        IF \E d \in 11..16 : s[i] = LowerDigits[d]
        THEN UpperDigits[CHOOSE d \in 11..16 : s[i] = LowerDigits[d]]
        ELSE s[i]]
MixedHex(s) == [i \in 1..Len(s) |-> IF i % 2 = 1 THEN UpperHex(s)[i] ELSE s[i]]

\* uint256 amounts: zero, 100 and the largest
Amounts == { << "0" >>, << "6", "4" >>, Rep("f", 64) }

\* The call data of transfer(address,uint256) and approve(address,uint256) as
\* the ABI coder of ethers encodes it for the page
EncodeCall(selector, address, amount) ==
    selector \o AddressWord(address) \o UintWord(amount)

\* What the call data was made from: the function, and for an ERC20 call the
\* address and the amount that were encoded
Intent(fn, address, amount) == [fn |-> fn, address |-> address, amount |-> amount]

\* The call data given to the engine, each with what it was made from: ERC20
\* calls as encoded and with upper-case digits, calls of the denylisted
\* functions and of another function in both spellings, a bare selector of
\* transfer and of approve, '0x', and none
WrapInputs ==
    LET erc20 == { << EncodeCall(IF fn = "transfer" THEN ERC20_TRANSFER_SELECTOR
                                                    ELSE ERC20_APPROVE_SELECTOR, a, v),
                      Intent(fn, a, v) >> :
                      fn \in { "transfer", "approve" },
                      a \in { ProtocolAddr, MixedHex(ProtocolAddr), OtherAddr },
                      v \in Amounts }
        spelled == erc20 \cup { << UpperHex(c[1]), c[2] >> : c \in erc20 }
        permit == { << sel \o AddressWord(ProtocolAddr), Intent("denylisted", << >>, << >>) >> :
                       sel \in UNWRAPPABLE_SELECTORS }
        other == { << << "0", "x", "1", "2", "3", "4", "5", "6", "7", "8" >>
                         \o AddressWord(OtherAddr),
                      Intent("other", << >>, << >>) >> }
        bare == { << sel, Intent("malformed", << >>, << >>) >> :
                     sel \in { ERC20_TRANSFER_SELECTOR, ERC20_APPROVE_SELECTOR } }
    IN spelled
       \cup permit \cup { << UpperHex(c[1]), c[2] >> : c \in permit }
       \cup other \cup { << UpperHex(c[1]), c[2] >> : c \in other }
       \cup bare
       \cup { << Str0x, Intent("none", << >>, << >>) >>,
              << Undefined, Intent("none", << >>, << >>) >> }

\* The stored configurations: none, or one for the first chain
WrapConfigs ==
    { {} } \cup
    { { WrapConfig(ModuleAddr, ChainMainnet, enabled, whitelist) } :
         enabled \in BOOLEAN,
         whitelist \in SUBSET { MixedHex(ProtocolAddr), TokenAddr } }

InitWrap ==
    /\ \E input \in WrapInputs,
          to \in { Undefined, TokenAddr, ProtocolAddr, UpperHex(ProtocolAddr) },
          value \in { "undefined", "0", "0x5" },
          chainId \in { ChainMainnet, ChainPolygon },
          configs \in WrapConfigs :
          wrap = [NoWrap EXCEPT !.tx = Tx(to, input[1], value),
                                !.call = input[2],
                                !.chainId = chainId,
                                !.configs = configs]
    /\ p = NewProvider
    /\ windowMsgs = << >>
    /\ agentInbox = {}
    /\ ag = AgentUnlocked
    /\ nRequests = 0
    /\ nUi = 0
    /\ nDispatched = 0
    /\ threads = [s \in Slots |-> IdleThread]
    /\ answered = {}
    /\ pageSeen = {}
    /\ restarted = FALSE
    /\ nMsgs = 0
    /\ twin = Run(NewProvider, AgentUnlocked)
    /\ nTwin = 0
    /\ send = NoSend
    /\ hid = NoHid
    /\ store = NoStore
    /\ usb = NoUsb

\* sendTransaction calls wrapTransactionThroughModule(transaction, network.chainId)
Wrap ==
    /\ ~wrap.wrapped
    /\ wrap' = [wrap EXCEPT
                   !.result = wrapTransactionThroughModule(wrap.tx, wrap.chainId,
                                                           wrap.configs),
                   !.wrapped = TRUE]
    /\ UNCHANGED << providerVars, ag, agentVars, twinVars, send, hid, lateVars >>

\* The call data is given to decodeERC20Transfer and to decodeERC20Approve
Decode ==
    /\ ~wrap.decoded
    /\ wrap.tx.data # Undefined
    /\ wrap' = [wrap EXCEPT !.transfer = decodeERC20Transfer(wrap.tx.data),
                            !.approve = decodeERC20Approve(wrap.tx.data),
                            !.decoded = TRUE]
    /\ UNCHANGED << providerVars, ag, agentVars, twinVars, send, hid, lateVars >>

NextWrap == Wrap \/ Decode

SpecWrap == InitWrap /\ [][NextWrap]_vars

\* The configuration of the transaction's chain is there and enabled
WrapEnabled ==
    \E c \in wrap.configs : c.chainId = wrap.chainId /\ c.enabled
\* The address is in the whitelist of the transaction's chain, whatever the
\* letter case of the two
Whitelisted(a) ==
    \E c \in wrap.configs :
        /\ c.chainId = wrap.chainId
        /\ \E w \in c.whitelistedProtocols : toLowerCase(w) = toLowerCase(a)
\* Two spellings of the same 20 bytes
SameAddress(a, b) == Len(a) = 42 /\ toLowerCase(a) = toLowerCase(b)

\* The call data of a call of the module read as the contract reads it: the
\* selector, and the i-th 32-byte word as an address and as a uint256
InnerSelector(data) == slice(data, 0, 10)
InnerWord(data, i) == slice(data, 10 + 64 * i, 74 + 64 * i)
InnerAddress(data, i) == Str0x \o slice(InnerWord(data, i), 24, 64)
InnerUint(data, i) == BigInt(Str0x \o InnerWord(data, i)).value
\* The bytes argument that starts at word i, of n bytes
InnerBytes(data, i, n) == slice(data, 10 + 64 * i, 10 + 64 * i + 2 * n)

\* C15: a transaction whose call data starts with a selector of the permit
\* denylist, in lower or upper case, comes back from
\* wrapTransactionThroughModule as it went in, whatever the configuration and
\* its whitelist, and also when the target is whitelisted.
C15_DenylistedUnchanged ==
    (wrap.wrapped /\ wrap.call.fn = "denylisted")
        => wrap.result = Returned(wrap.tx)

\* C15 happens: a denylisted call spelled in upper case, to a whitelisted
\* target on a chain with wrapping enabled, came back unchanged
C15_PermitToWhitelistedTarget ==
    /\ wrap.wrapped
    /\ wrap.call.fn = "denylisted"
    /\ wrap.tx.data = UpperHex(wrap.tx.data)
    /\ wrap.tx.data # toLowerCase(wrap.tx.data)
    /\ WrapEnabled
    /\ wrap.tx.to # Undefined /\ Whitelisted(wrap.tx.to)
    /\ wrap.result = Returned(wrap.tx)

\* C16: with wrapping enabled for the chain, approve(spender, amount) sent to
\* a token T becomes approveProtocol(T, spender, amount) sent to the module
\* with value 0 exactly when the spender is whitelisted, in whatever letter
\* case; otherwise it comes back as it went in, also when T is whitelisted.
C16_ApproveWrappedIffSpenderWhitelisted ==
    (/\ wrap.wrapped
     /\ WrapEnabled
     /\ wrap.call.fn = "approve"
     /\ wrap.tx.to # Undefined)
    => IF Whitelisted(wrap.call.address)
       THEN /\ wrap.result.how = "returned"
            /\ SameAddress(wrap.result.tx.to, ModuleAddr)
            /\ wrap.result.tx.value = "0"
            /\ Len(wrap.result.tx.data) = 10 + 3 * 64
            /\ InnerSelector(wrap.result.tx.data) = DEFI_INTERACTOR_ABI.approveProtocol
            /\ SameAddress(InnerAddress(wrap.result.tx.data, 0), wrap.tx.to)
            /\ SameAddress(InnerAddress(wrap.result.tx.data, 1), wrap.call.address)
            /\ InnerUint(wrap.result.tx.data, 2) = wrap.call.amount
       ELSE wrap.result = Returned(wrap.tx)

\* C16 happens: an approve was wrapped for a spender whose spelling differs
\* from the whitelist's; and (the other case) an approve sent to a whitelisted
\* token for a spender that is not whitelisted came back unchanged
C16_ApproveWrapped ==
    /\ wrap.wrapped
    /\ WrapEnabled
    /\ wrap.call.fn = "approve"
    /\ wrap.tx.to = TokenAddr
    /\ Whitelisted(wrap.call.address)
    /\ \A c \in wrap.configs : wrap.call.address \notin c.whitelistedProtocols
    /\ wrap.call.amount = Rep("f", 64)
    /\ wrap.tx.value = "0x5"
    /\ wrap.result.tx.to = ModuleAddr
    /\ wrap.result.tx.value = "0"

\* C17: with wrapping enabled for the chain, every transfer(recipient, amount)
\* sent to a token T becomes transferToken(T, recipient, amount) sent to the
\* module with value 0, the recipient and the amount those of the original
\* call, whatever the whitelist.
C17_TransferAlwaysWrapped ==
    (/\ wrap.wrapped
     /\ WrapEnabled
     /\ wrap.call.fn = "transfer"
     /\ wrap.tx.to # Undefined)
    => /\ wrap.result.how = "returned"
       /\ SameAddress(wrap.result.tx.to, ModuleAddr)
       /\ wrap.result.tx.value = "0"
       /\ Len(wrap.result.tx.data) = 10 + 3 * 64
       /\ InnerSelector(wrap.result.tx.data) = DEFI_INTERACTOR_ABI.transferToken
       /\ SameAddress(InnerAddress(wrap.result.tx.data, 0), wrap.tx.to)
       /\ SameAddress(InnerAddress(wrap.result.tx.data, 1), wrap.call.address)
       /\ InnerUint(wrap.result.tx.data, 2) = wrap.call.amount

\* C17 happens: a transfer to a recipient that is not whitelisted, with an
\* empty whitelist, was wrapped
C17_TransferWrappedWithEmptyWhitelist ==
    /\ wrap.wrapped
    /\ WrapEnabled
    /\ wrap.call.fn = "transfer"
    /\ wrap.call.address = OtherAddr
    /\ wrap.call.amount = << "6", "4" >>
    /\ wrap.tx.to = TokenAddr
    /\ \A c \in wrap.configs : c.whitelistedProtocols = {}
    /\ wrap.result.tx.to = ModuleAddr
    /\ InnerSelector(wrap.result.tx.data) = DEFI_INTERACTOR_ABI.transferToken

\* C18: with wrapping enabled, a transaction that is neither an approve nor a
\* transfer nor denylisted becomes executeOnProtocol(target, data) sent to the
\* module, its value kept (0 when it had none), exactly when its target is
\* whitelisted and it has call data other than '0x'; otherwise it comes back
\* as it went in.
C18_ProtocolCallWrappedIffWhitelisted ==
    (/\ wrap.wrapped
     /\ WrapEnabled
     /\ wrap.call.fn \in { "other", "none" })
    => IF /\ wrap.tx.to # Undefined
          /\ Whitelisted(wrap.tx.to)
          /\ wrap.tx.data # Undefined
          /\ wrap.tx.data # Str0x
       THEN LET data == wrap.result.tx.data
                n == (Len(wrap.tx.data) - 2) \div 2
            IN /\ wrap.result.how = "returned"
               /\ SameAddress(wrap.result.tx.to, ModuleAddr)
               /\ wrap.result.tx.value = IF wrap.tx.value = "undefined"
                                         THEN "0" ELSE wrap.tx.value
               /\ InnerSelector(data) = DEFI_INTERACTOR_ABI.executeOnProtocol
               /\ SameAddress(InnerAddress(data, 0), wrap.tx.to)
               /\ InnerUint(data, 1) = HexOfNat(64)
               /\ InnerUint(data, 2) = HexOfNat(n)
               /\ InnerBytes(data, 3, n) = toLowerCase(slice(wrap.tx.data, 2, Len(wrap.tx.data)))
               /\ Len(data) % 64 = 10
       ELSE wrap.result = Returned(wrap.tx)

\* C18 happens: a call of another function, sent with a value to a target
\* whose spelling differs from the whitelist's, was wrapped and kept its value
C18_ProtocolCallWrapped ==
    /\ wrap.wrapped
    /\ WrapEnabled
    /\ wrap.call.fn = "other"
    /\ wrap.tx.to = UpperHex(ProtocolAddr)
    /\ wrap.tx.value = "0x5"
    /\ wrap.result.tx.to = ModuleAddr
    /\ wrap.result.tx.value = "0x5"
    /\ InnerSelector(wrap.result.tx.data) = DEFI_INTERACTOR_ABI.executeOnProtocol

\* C19: when no configuration is stored for the chain id, or the one stored is
\* not enabled, every transaction comes back from wrapTransactionThroughModule
\* as it went in: approve, transfer and whitelisted protocol calls too.
C19_NoConfigNoWrap ==
    (wrap.wrapped /\ ~WrapEnabled) => wrap.result = Returned(wrap.tx)

\* C19 happens: a transfer came back unchanged on a chain that has no
\* configuration while another chain has one that is enabled
C19_TransferOnUnconfiguredChain ==
    /\ wrap.wrapped
    /\ wrap.chainId = ChainPolygon
    /\ \E c \in wrap.configs : c.enabled /\ c.chainId = ChainMainnet
    /\ wrap.call.fn = "transfer"
    /\ wrap.tx.to = TokenAddr
    /\ wrap.result = Returned(wrap.tx)

\* C20: decoding undoes encoding.  For call data encoded from an address and
\* an amount, decodeERC20Transfer (for transfer) and decodeERC20Approve (for
\* approve) give back the same 20 bytes and the same amount, and so do the
\* parameters of the wrapped call when the engine has rewritten it.
C20_DecodeInvertsEncode ==
    /\ (wrap.decoded /\ wrap.call.fn = "transfer")
          => /\ wrap.transfer.ok
             /\ SameAddress(wrap.transfer.recipient, wrap.call.address)
             /\ wrap.transfer.amount = wrap.call.amount
    /\ (wrap.decoded /\ wrap.call.fn = "approve")
          => /\ wrap.approve.ok
             /\ SameAddress(wrap.approve.spender, wrap.call.address)
             /\ wrap.approve.amount = wrap.call.amount
    /\ (/\ wrap.wrapped
        /\ wrap.call.fn \in { "transfer", "approve" }
        /\ wrap.result.how = "returned"
        /\ wrap.result.tx # wrap.tx)
          => /\ SameAddress(InnerAddress(wrap.result.tx.data, 1), wrap.call.address)
             /\ InnerUint(wrap.result.tx.data, 2) = wrap.call.amount

\* C20 happens: an approve of the largest amount, encoded from the checksum
\* spelling of the spender, was decoded and was wrapped
C20_LargestAmountDecoded ==
    /\ wrap.decoded
    /\ wrap.wrapped
    /\ wrap.call.fn = "approve"
    /\ wrap.call.address = MixedHex(ProtocolAddr)
    /\ wrap.call.amount = Rep("f", 64)
    /\ wrap.approve.ok
    /\ wrap.approve.amount = Rep("f", 64)
    /\ wrap.result.how = "returned"
    /\ wrap.result.tx # wrap.tx

(***************************************************************************)
(* SpecSend: one call of sendTransaction, from the payload of the message  *)
(* to the hash of the broadcast transaction or to an exception.            *)
(***************************************************************************)
\* The 20 bytes of the address of an account of the wallet
AddressBytes(address) ==
    IF address = Addr0 THEN Address("a", "0")
    ELSE IF address = Addr1 THEN Address("a", "1")
    ELSE Undefined

\* signer.signTransaction(transaction): the ethers.Wallet of a SoftwareSigner
\* throws when the transaction has a from that is not its own address; a
\* LedgerSigner leaves the from out of what it signs
signTransaction_accepts(signer, transaction) ==
    \/ signer.type = LEDGER
    \/ transaction.from = Undefined
    \/ toLowerCase(transaction.from) = toLowerCase(AddressBytes(AddressOfKey(signer.key)))

\* sendTransaction from one await to the next.  env is what the JSON-RPC
\* provider answers to the call the step makes, if it makes one.
sendTransactionStep(s, a, env) ==
    LET currentAccount == [address |-> AddressBytes(getCurrentAccount(a)),
                           derivationPath |-> getCurrentAccountPath(a)]
        path == IF s.path # "" THEN s.path ELSE currentAccount.derivationPath
        network == [chainId |-> getCurrentNetwork(a)]
    IN
    CASE s.pc = "start" ->
            IF getCurrentAccount(a) = NoAddr THEN SendFailed(s, "No account selected")
            ELSE IF path = "" THEN SendFailed(s, "No derivation path found")
            ELSE IF network.chainId = NoChain THEN SendFailed(s, "No network selected")
            ELSE [s EXCEPT !.pc = "wrap",
                           !.tx = bindChain(s.payload, network, currentAccount),
                           !.log = Append(@, "chainId")]
      [] s.pc = "wrap" ->
            [s EXCEPT !.pc = "gas",
                      !.tx = wrapStep(s.tx, network, currentAccount, s.configs),
                      !.log = Append(@, "wrap")]
      [] s.pc = "gas" ->
            [s EXCEPT !.pc = "fee",
                      !.tx = gasStage(s.tx, env.rpc),
                      !.gasEstimate = env.rpc,
                      !.asked = IF ~Truthy(s.tx.gas) /\ ~Truthy(s.tx.gasLimit)
                                THEN @ \cup { "estimateGas" } ELSE @,
                      !.log = Append(@, "gasLimit")]
      [] s.pc = "fee" ->
            [s EXCEPT !.pc = "nonce",
                      !.tx = feeStage(s.tx, env.feeData),
                      !.feeData = env.feeData,
                      !.asked = IF ~Truthy(s.tx.gasPrice) /\ ~Truthy(s.tx.maxFeePerGas)
                                THEN @ \cup { "getFeeData" } ELSE @,
                      !.log = Append(@, "fee")]
      [] s.pc = "nonce" ->
            LET fetched == nonceStage(s.tx, env.rpc)
                t == [s EXCEPT !.count = env.rpc,
                               !.nonceOf = IF s.tx.nonce = Undefined
                                           THEN currentAccount.address ELSE @,
                               !.asked = IF s.tx.nonce = Undefined
                                         THEN @ \cup { "getTransactionCount" } ELSE @]
            IN IF ~fetched.ok THEN SendFailed(t, "getTransactionCount failed")
               ELSE [t EXCEPT !.pc = "sign", !.tx = fetched.tx,
                              !.log = Append(@, "nonce")]
      [] s.pc = "sign" ->
            LET signer == createSendSigner(a, path) IN
            IF signer = NoSigner THEN SendFailed(s, "Wallet is locked")
            ELSE IF ~signTransaction_accepts(signer, s.tx)
            THEN [SendFailed(s, "transaction from address mismatch") EXCEPT
                     !.signer = signer, !.cleared = TRUE]
            ELSE [s EXCEPT !.pc = "broadcast", !.signer = signer,
                           !.signedTx = Append(@, s.tx),
                           !.log = Append(@, "sign")]
      [] s.pc = "broadcast" ->
            IF env.rpc.ok
            THEN [s EXCEPT !.pc = "done", !.cleared = TRUE,
                           !.broadcast = Append(@, s.signedTx[Len(s.signedTx)]),
                           !.log = Append(@, "broadcast")]
            ELSE [SendFailed(s, "broadcast failed") EXCEPT !.cleared = TRUE]
      [] OTHER -> s

\* What the network answers: to estimateGas, to getFeeData, to
\* getTransactionCount and to broadcastTransaction
GasEstimates == { RpcFailed, RpcNumber(21000), RpcNumber(21001) }
FeeDatas ==
    { FeeDataFailed,
      FeeData(Undefined, Undefined, Undefined),
      FeeData(Undefined, Undefined, Num(5)),
      FeeData(Num(9), Num(2), Num(5)),
      FeeData(Num(9), Num(2), Undefined),
      FeeData(Num(9), Num(0), Num(5)),
      FeeData(Num(9), Undefined, Num(5)) }
TransactionCounts == { RpcFailed, RpcNumber(0) }

\* The answers the step of the call can get: those of the call it makes
Envs(s) ==
    IF s.pc = "gas" /\ ~Truthy(s.tx.gas) /\ ~Truthy(s.tx.gasLimit)
    THEN { Env(r, FeeDataFailed) : r \in GasEstimates }
    ELSE IF s.pc = "fee" /\ ~Truthy(s.tx.gasPrice) /\ ~Truthy(s.tx.maxFeePerGas)
    THEN { Env(RpcFailed, f) : f \in FeeDatas }
    ELSE IF s.pc = "nonce" /\ s.tx.nonce = Undefined
    THEN { Env(r, FeeDataFailed) : r \in TransactionCounts }
    ELSE IF s.pc = "broadcast"
    THEN { Env(r, FeeDataFailed) : r \in { RpcFailed, RpcNumber(1) } }
    ELSE { Env(RpcFailed, FeeDataFailed) }

\* Call data of n bytes of a function that is neither of ERC20 nor denylisted
OtherCall(n) ==
    << "0", "x", "1", "2", "3", "4", "5", "6", "7", "8" >> \o Rep("0", 2 * (n - 4))

\* The target and the call data of the transactions sent: a transfer of
\* ether; ERC20 calls, whole and cut short in their second word, after their
\* first word and after the selector; a transfer with no target; calls of
\* another function of 99, 100, 101, 1000 and 1001 bytes, and one to a
\* whitelisted protocol
SendCalls ==
    { << OtherAddr, Undefined >>, << OtherAddr, Str0x >>,
      << TokenAddr, EncodeCall(ERC20_TRANSFER_SELECTOR, OtherAddr, << "6", "4" >>) >>,
      << Undefined, EncodeCall(ERC20_TRANSFER_SELECTOR, OtherAddr, << "6", "4" >>) >>,
      << TokenAddr, ERC20_TRANSFER_SELECTOR \o AddressWord(OtherAddr)
                       \o Rep("0", 30) \o << "0", "1" >> >>,
      << TokenAddr, ERC20_TRANSFER_SELECTOR \o AddressWord(OtherAddr) >>,
      << TokenAddr, ERC20_TRANSFER_SELECTOR >>,
      << TokenAddr, ERC20_APPROVE_SELECTOR \o AddressWord(ProtocolAddr)
                       \o Rep("0", 30) \o << "0", "1" >> >>,
      << TokenAddr, ERC20_APPROVE_SELECTOR \o Rep("0", 40) >>,
      << ProtocolAddr, OtherCall(99) >> }
    \cup { << OtherAddr, OtherCall(n) >> : n \in { 99, 100, 101, 1000, 1001 } }

\* The fields a page sets besides: none; a chain and a sender of its own; a
\* gas price; the fees of EIP-1559, both or the priority fee alone; a nonce
\* of zero; all of them as the wallet would set them
SendFields ==
    LET none == TransactionRequest(Undefined, Undefined, "undefined") IN
    { none,
      [none EXCEPT !.chainId = Num(ChainPolygon), !.from = OtherAddr],
      [none EXCEPT !.gasPrice = Num(5)],
      [none EXCEPT !.maxFeePerGas = Num(9), !.maxPriorityFeePerGas = Num(2)],
      [none EXCEPT !.maxPriorityFeePerGas = Num(2)],
      [none EXCEPT !.nonce = Num(0)],
      [none EXCEPT !.chainId = Num(ChainMainnet), !.from = AddressBytes(Addr0),
                   !.gasPrice = Num(5), !.nonce = Num(7)] }

\* The gas limit a page sets: none, as gasLimit, as gas
SendGas ==
    LET none == TransactionRequest(Undefined, Undefined, "undefined") IN
    { none, [none EXCEPT !.gasLimit = Num(50000)], [none EXCEPT !.gas = Num(60000)] }

\* The transactions of eth_sendTransaction
PageTransactions ==
    { [f EXCEPT !.to = c[1], !.data = c[2], !.value = v,
                !.gas = g.gas, !.gasLimit = g.gasLimit] :
         c \in SendCalls, f \in SendFields, g \in SendGas, v \in { "undefined" } }

\* The transactions the popup composes: to, value and from, and a gas limit
\* when the user gives one
UiTransactions ==
    { [TransactionRequest(OtherAddr, Undefined, "0x5") EXCEPT
          !.from = AddressBytes(Addr0), !.gasLimit = g] :
         g \in { Undefined, Num(50000) } }

\* The transactions of a message that carries the path of the second account
\* while the first is the current one: the popup's, composed for the account
\* it had read as the current one, and one with no from
PathTransactions ==
    { [TransactionRequest(OtherAddr, Undefined, "0x5") EXCEPT !.from = f] :
         f \in { Undefined, AddressBytes(Addr1) } }

\* The agent with a Ledger wallet, and with the wallet of an imported private key
AgentLedger ==
    [AgentUnlocked EXCEPT !.walletKind = "ledger", !.session = NoSession,
                          !.walletInstance = NoSecret]
AgentPrivateKey ==
    [AgentUnlocked EXCEPT !.walletKind = "privateKey",
                          !.accounts = AccountsOf("privateKey"),
                          !.session = Session(TRUE, PrivateKey),
                          !.walletInstance = NoSecret]

InitSend ==
    /\ \/ /\ ag = AgentUnlocked
          /\ \E t \in PageTransactions,
                configs \in { {}, { WrapConfig(ModuleAddr, ChainMainnet, TRUE,
                                               { ProtocolAddr }) } } :
                send = [NoSend EXCEPT !.pc = "start", !.origin = "page",
                                      !.payload = t, !.tx = t, !.configs = configs]
       \/ /\ ag = AgentUnlocked
          /\ \E t \in UiTransactions :
                send = [NoSend EXCEPT !.pc = "start", !.origin = "ui",
                                      !.payload = t, !.tx = t]
       \/ /\ ag \in { AgentUnlocked, AgentLedger }
          /\ \E t \in PathTransactions :
                send = [NoSend EXCEPT !.pc = "start",
                                      !.origin = IF t.from = Undefined THEN "page" ELSE "ui",
                                      !.payload = t, !.tx = t,
                                      !.path = AccountsOf("mnemonic")[2].derivationPath]
       \/ /\ ag \in { AgentLedger, AgentPrivateKey, AgentLocked("mnemonic"),
                      AgentLocked("privateKey"),
                      [AgentUnlocked EXCEPT !.accounts = << >>],
                      [AgentUnlocked EXCEPT !.networks = << >>] }
          /\ \E t \in UiTransactions :
                send = [NoSend EXCEPT !.pc = "start", !.origin = "ui",
                                      !.payload = t, !.tx = t]
    /\ p = NewProvider
    /\ windowMsgs = << >>
    /\ agentInbox = {}
    /\ nRequests = 0
    /\ nUi = 0
    /\ nDispatched = 0
    /\ threads = [s \in Slots |-> IdleThread]
    /\ answered = {}
    /\ pageSeen = {}
    /\ restarted = FALSE
    /\ nMsgs = 0
    /\ twin = Run(NewProvider, AgentUnlocked)
    /\ nTwin = 0
    /\ wrap = NoWrap
    /\ hid = NoHid
    /\ store = NoStore
    /\ usb = NoUsb

\* The call of sendTransaction goes on to its next await, or ends
SendStep ==
    /\ send.pc \notin { "idle", "done", "failed" }
    /\ \E env \in Envs(send) : send' = sendTransactionStep(send, ag, env)
    /\ UNCHANGED << providerVars, ag, agentVars, twinVars, wrap, hid, lateVars >>

NextSend == SendStep

SpecSend == InitSend /\ [][NextSend]_vars

\* The call data is an ERC20 transfer or approve whose arguments are shorter
\* than two words of 32 bytes
Malformed(data) ==
    /\ \/ startsWith(toLowerCase(data), ERC20_TRANSFER_SELECTOR)
       \/ startsWith(toLowerCase(data), ERC20_APPROVE_SELECTOR)
    /\ Len(data) - 10 < 2 * 64
\* The wrapping is behind the call
Wrapped == \E i \in DOMAIN send.log : send.log[i] = "wrap"

\* C21: when the call data of the payload is a malformed transfer or approve,
\* the transaction keeps the to, data and value of the payload through the
\* wrapping and up to the signer, and the wrapping does not end the call.
C21_MalformedNotRewritten ==
    (Wrapped /\ Malformed(send.payload.data))
        => /\ send.tx.to = send.payload.to
           /\ send.tx.data = send.payload.data
           /\ send.tx.value = send.payload.value
           /\ send.error # "wrap"

\* The stage is behind the call
Passed(stage) == \E i \in DOMAIN send.log : send.log[i] = stage
\* The transaction the signer was handed
Signed == send.signedTx[Len(send.signedTx)]

\* C22: every one of chainId, from, gasLimit, gasPrice, maxFeePerGas,
\* maxPriorityFeePerGas and nonce that the payload sets, a nonce of 0 too, has
\* the payload's value in the transaction handed to the signer.
C22_CallerFieldsKept ==
    Passed("sign") =>
        /\ send.payload.chainId # Undefined => Signed.chainId = send.payload.chainId
        /\ send.payload.from # Undefined => Signed.from = send.payload.from
        /\ send.payload.gasLimit # Undefined => Signed.gasLimit = send.payload.gasLimit
        /\ send.payload.gasPrice # Undefined => Signed.gasPrice = send.payload.gasPrice
        /\ send.payload.maxFeePerGas # Undefined
              => Signed.maxFeePerGas = send.payload.maxFeePerGas
        /\ send.payload.maxPriorityFeePerGas # Undefined
              => Signed.maxPriorityFeePerGas = send.payload.maxPriorityFeePerGas
        /\ send.payload.nonce # Undefined => Signed.nonce = send.payload.nonce

\* C23: a transaction whose payload sets no nonce, no gas limit and no fee
\* field reaches the signer with chainId, nonce and gasLimit set, and with
\* gasPrice or both maxFeePerGas and maxPriorityFeePerGas set, whatever
\* estimateGas and getFeeData came to.
C23_EnrichmentTotal ==
    ( /\ Passed("sign")
      /\ send.payload.nonce = Undefined
      /\ send.payload.gasLimit = Undefined /\ send.payload.gas = Undefined
      /\ send.payload.gasPrice = Undefined
      /\ send.payload.maxFeePerGas = Undefined
      /\ send.payload.maxPriorityFeePerGas = Undefined )
        => /\ Signed.chainId # Undefined
           /\ Signed.nonce # Undefined
           /\ Signed.gasLimit # Undefined
           /\ \/ Signed.gasPrice # Undefined
              \/ Signed.maxFeePerGas # Undefined /\ Signed.maxPriorityFeePerGas # Undefined

\* C24: no transaction is handed to the signer with an undefined nonce, and
\* when the payload sets no nonce and getTransactionCount fails, the call has
\* failed with nothing signed and nothing broadcast.
C24_NonceFailureFatal ==
    /\ \A i \in DOMAIN send.signedTx : send.signedTx[i].nonce # Undefined
    /\ ("getTransactionCount" \in send.asked /\ ~send.count.ok)
          => /\ send.pc = "failed"
             /\ send.error # ""
             /\ send.signedTx = << >>
             /\ send.broadcast = << >>

\* C24 happens: the payload had no nonce, the gas limit and the fee fields
\* were filled in, the lookup of the nonce failed and the call failed
C24_NonceLookupFailed ==
    /\ send.payload.nonce = Undefined
    /\ "getTransactionCount" \in send.asked
    /\ ~send.count.ok
    /\ Passed("fee")
    /\ send.pc = "failed"

\* C25: a gas limit that is not given and whose estimate e succeeds is
\* floor(e * 1.5) for a transaction of a page and floor(e * 1.2) for one
\* composed in the wallet UI.
C25_BufferByOrigin ==
    (Passed("gasLimit") /\ "estimateGas" \in send.asked /\ send.gasEstimate.ok)
        => send.tx.gasLimit =
              Num(IF send.origin = "page" THEN (send.gasEstimate.value * 15) \div 10
                  ELSE (send.gasEstimate.value * 12) \div 10)

\* The gas limit was not given and estimateGas failed
EstimateFailed ==
    Passed("gasLimit") /\ "estimateGas" \in send.asked /\ ~send.gasEstimate.ok
\* Twice the bytes of the data of the transaction
DataDigits == Len(send.tx.data) - 2

\* C26 as stated: when the estimate fails the gas limit is 21000 with no
\* data or '0x', 100000 for fewer than 100 bytes, 300000 for 100 to 1000
\* bytes, 500000 for more than 1000 bytes.
C26_TiersAsStated ==
    EstimateFailed =>
        send.tx.gasLimit =
            Num(IF send.tx.data = Undefined \/ send.tx.data = Str0x THEN 21000
                ELSE IF DataDigits < 2 * 100 THEN 100000
                ELSE IF DataDigits <= 2 * 1000 THEN 300000
                ELSE 500000)

\* C26 amended: when the estimate fails the gas limit is 21000 with no data
\* or '0x', 100000 for at most 100 bytes, 300000 for more than 100 and at
\* most 1000 bytes, 500000 for more than 1000 bytes, the data being that of
\* the transaction as it left the wrapping.
C26_FallbackTiers ==
    EstimateFailed =>
        send.tx.gasLimit =
            Num(IF send.tx.data = Undefined \/ send.tx.data = Str0x THEN 21000
                ELSE IF DataDigits <= 2 * 100 THEN 100000
                ELSE IF DataDigits <= 2 * 1000 THEN 300000
                ELSE 500000)

\* C26 happens: the estimate failed for data of exactly 100 bytes, and the gas
\* limit is 100000
C26_HundredBytes ==
    /\ EstimateFailed
    /\ send.tx.data # Undefined
    /\ DataDigits = 2 * 100
    /\ send.tx.gasLimit = Num(100000)

\* C27: when the payload sets neither gasPrice nor a fee of EIP-1559, the fee
\* stage sets maxFeePerGas, maxPriorityFeePerGas and type 2 and no gasPrice
\* if the network reports both fees, and otherwise sets gasPrice and none of
\* the three.
C27_FeeMarketElseGasPrice ==
    ( /\ Passed("fee")
      /\ send.payload.gasPrice = Undefined
      /\ send.payload.maxFeePerGas = Undefined
      /\ send.payload.maxPriorityFeePerGas = Undefined )
        => IF /\ send.feeData.ok
              /\ send.feeData.maxFeePerGas # Undefined
              /\ send.feeData.maxPriorityFeePerGas # Undefined
           THEN /\ send.tx.maxFeePerGas = send.feeData.maxFeePerGas
                /\ send.tx.maxPriorityFeePerGas = send.feeData.maxPriorityFeePerGas
                /\ send.tx.type = Num(2)
                /\ send.tx.gasPrice = Undefined
           ELSE /\ send.tx.gasPrice # Undefined
                /\ send.tx.maxFeePerGas = Undefined
                /\ send.tx.maxPriorityFeePerGas = Undefined
                /\ send.tx.type = Undefined

\* C28: the stages come in the order chain id, gas limit, fee fields, nonce,
\* wrapping, signing, broadcast: when the wrapping is behind the call, so are
\* the four stages of enrichment, and none of them comes after it.
C28_WrapAfterEnrichment ==
    \A i \in DOMAIN send.log :
        /\ send.log[i] = "wrap"
              => { "chainId", "gasLimit", "fee", "nonce" }
                    \subseteq { send.log[j] : j \in 1..(i - 1) }
        /\ send.log[i] = "sign" => "wrap" \in { send.log[j] : j \in 1..(i - 1) }
        /\ send.log[i] = "broadcast" => "sign" \in { send.log[j] : j \in 1..(i - 1) }

(***************************************************************************)
(* SpecSigner: signers are made, called and cleared in any order, as the   *)
(* agent does for each signing request and as any other caller may.        *)
(***************************************************************************)
MaxSigners == 2
MaxSignerCalls == 3

InitSigner ==
    /\ hid = [NoHid EXCEPT !.software = SoftwareSigner(PrivateKey)]
    /\ store = NoStore
    /\ usb = NoUsb
    /\ send = NoSend
    /\ wrap = NoWrap
    /\ p = NewProvider
    /\ windowMsgs = << >>
    /\ agentInbox = {}
    /\ ag = AgentLedger
    /\ nRequests = 0
    /\ nUi = 0
    /\ nDispatched = 0
    /\ threads = [s \in Slots |-> IdleThread]
    /\ answered = {}
    /\ pageSeen = {}
    /\ restarted = FALSE
    /\ nMsgs = 0
    /\ twin = Run(NewProvider, AgentUnlocked)
    /\ nTwin = 0

\* A transport is open: the device is in use
DeviceInUse == \E t \in DOMAIN hid.transports : hid.transports[t].state = "open"

\* signMessage, signTransaction and sendTransaction of the agent make a
\* LedgerSigner for the request of a Ledger wallet
CreateLedger ==
    /\ Len(hid.ledger) < MaxSigners
    /\ hid' = createLedgerSigner(hid, getCurrentAccountPath(ag))
    /\ UNCHANGED << providerVars, ag, agentVars, twinVars, wrap, send, lateVars >>

\* A call of a LedgerSigner.  The device may be absent, and it gives no second
\* transport while one is open; it may decline to answer.
LedgerCall(i, call) ==
    /\ hid.nCalls < MaxSignerCalls
    /\ \E created \in IF DeviceInUse THEN { FALSE } ELSE BOOLEAN, replied \in BOOLEAN :
          hid' = [LedgerSigner_call(hid, i, call, created, replied) EXCEPT
                     !.nCalls = @ + 1]
    /\ UNCHANGED << providerVars, ag, agentVars, twinVars, wrap, send, lateVars >>

\* signer.clear() on a LedgerSigner
LedgerClear(i) ==
    /\ hid' = LedgerSigner_clear(hid, i)
    /\ UNCHANGED << providerVars, ag, agentVars, twinVars, wrap, send, lateVars >>

\* transport.close() is done and disconnect goes on
LedgerDisconnected(i) ==
    /\ hid.ledger[i].closing
    /\ hid' = disconnect(hid, i)
    /\ UNCHANGED << providerVars, ag, agentVars, twinVars, wrap, send, lateVars >>

\* A call of the SoftwareSigner
SoftwareCall(call) ==
    /\ hid.nCalls < MaxSignerCalls
    /\ hid' = [SoftwareSigner_call(hid, call) EXCEPT !.nCalls = @ + 1]
    /\ UNCHANGED << providerVars, ag, agentVars, twinVars, wrap, send, lateVars >>

\* signer.clear() on the SoftwareSigner
SoftwareClear ==
    /\ hid' = SoftwareSigner_clear(hid)
    /\ UNCHANGED << providerVars, ag, agentVars, twinVars, wrap, send, lateVars >>

NextSigner ==
    \/ CreateLedger
    \/ \E i \in DOMAIN hid.ledger, call \in SignerCalls : LedgerCall(i, call)
    \/ \E i \in DOMAIN hid.ledger : LedgerClear(i)
    \/ \E i \in DOMAIN hid.ledger : LedgerDisconnected(i)
    \/ \E call \in SignerCalls : SoftwareCall(call)
    \/ SoftwareClear

SpecSigner == InitSigner /\ [][NextSigner]_vars

\* C29: a call of getAddress, signMessage, signTypedData or signTransaction
\* made on a SoftwareSigner or a LedgerSigner after clear() fails.
C29_CallsAfterClearFail ==
    hid.last.afterClear => ~hid.last.ok

\* C30: over the signing requests of one lifetime of the agent, each with the
\* signer made for it, a transport to the device is opened at most once, and
\* the transport a signer opened is closed once the signer is cleared.
\* (Transports a signer opens again after clear() are left out here: they
\* are the matter of C29.)
C30_TransportOpenedOnce ==
    /\ Cardinality({ t \in DOMAIN hid.transports : ~hid.transports[t].reopened }) <= 1
    /\ \A i \in DOMAIN hid.ledger :
          ( /\ hid.ledger[i].cleared
            /\ hid.ledger[i].transport # 0
            /\ ~hid.transports[hid.ledger[i].transport].reopened )
             => hid.transports[hid.ledger[i].transport].state = "closed"

(***************************************************************************)
(* SpecStorage: requests that read and write the stored networks and       *)
(* accounts arrive while earlier ones are still at an await.               *)
(***************************************************************************)
MaxStoreCalls == 3

\* The networks an older release stored as its defaults, and today's
StoredDefaults == { << ChainMainnet >>, DefaultNetworks }

InitStorage ==
    /\ store \in { [NoStore EXCEPT !.networks = n] : n \in StoredDefaults }
    /\ usb = NoUsb
    /\ hid = NoHid
    /\ send = NoSend
    /\ wrap = NoWrap
    /\ p = NewProvider
    /\ windowMsgs = << >>
    /\ agentInbox = {}
    /\ ag = AgentUnlocked
    /\ nRequests = 0
    /\ nUi = 0
    /\ nDispatched = 0
    /\ threads = [s \in Slots |-> IdleThread]
    /\ answered = {}
    /\ pageSeen = {}
    /\ restarted = FALSE
    /\ nMsgs = 0
    /\ twin = Run(NewProvider, AgentUnlocked)
    /\ nTwin = 0

\* The listener calls handleMessage for a message while other calls wait
StoreArrive(s, type, chainId) ==
    /\ store.nCalls < MaxStoreCalls
    /\ store.calls[s].pc \in { "idle", "done" }
    /\ store' = [store EXCEPT !.calls[s] = StoreCall(type, chainId, FirstStep(type)),
                              !.nCalls = @ + 1]
    /\ UNCHANGED << providerVars, ag, agentVars, twinVars, wrap, send, hid, usb >>

\* A call goes on to its next await
StoreResume(s) ==
    /\ store.calls[s].pc \notin { "idle", "done" }
    /\ store' = StoreStep(store, s)
    /\ UNCHANGED << providerVars, ag, agentVars, twinVars, wrap, send, hid, usb >>

NextStorage ==
    \/ \E s \in Slots, chainId \in { ChainPolygon, ChainOther } :
          StoreArrive(s, "ADD_NETWORK", chainId)
    \/ \E s \in Slots, hex \in HexInputs : StoreArrive(s, "ADD_CHAIN", ParseInt(hex, 16))
    \/ \E s \in Slots, type \in { "UPDATE_DEFAULT_NETWORKS", "CREATE_WALLET", "ADD_ACCOUNT" } :
          StoreArrive(s, type, 0)
    \/ \E s \in Slots : StoreResume(s)

SpecStorage == InitStorage /\ [][NextStorage]_vars

\* No two stored networks have the same chainId
NetworksUnique ==
    \A i, j \in DOMAIN store.networks :
        store.networks[i] = store.networks[j] => i = j

\* The call in slot s takes the step that ends it
Ends(s) == store.calls[s].pc # "done" /\ store'.calls[s].pc = "done"

\* C31: no two stored networks have the same chainId, whatever the order and
\* overlap of wallet creation, ADD_NETWORK, ADD_CHAIN and
\* UPDATE_DEFAULT_NETWORKS; no call writes the list of networks for a chainId
\* that is stored when it writes; an ADD_NETWORK that finds the chainId stored
\* fails with 'Network already exists', an ADD_CHAIN that finds it stored
\* makes the entry with that chainId the current network, and both leave the
\* stored networks as they are.
C31_StoredChainNotAddedAgain ==
    [][/\ NetworksUnique'
       /\ \A s \in Slots :
            /\ ( /\ store.calls[s].pc = "addNetwork.set"
                 /\ store'.calls[s].pc # "addNetwork.set" )
                  => ~some(store.networks, store.calls[s].chainId)
            /\ ( Ends(s) /\ store.calls[s].type = "ADD_NETWORK"
                         /\ store'.calls[s].exists )
                  => /\ store'.calls[s].response = "Network already exists"
                     /\ store'.networks = store.networks
            /\ ( Ends(s) /\ store.calls[s].type = "ADD_CHAIN"
                         /\ store'.calls[s].found )
                  => /\ store'.calls[s].response = "existing"
                     /\ store'.networks = store.networks
                     /\ getCurrentNetwork([networks |-> store'.networks,
                                           state |-> State(FALSE, 0, store'.currentNetwork)])
                           = store.calls[s].chainId
      ]_vars

\* C36: every stored account has the index of its position in the list of
\* accounts, so that no two accounts share an index or a derivation path.
C36_IndexIsPosition ==
    \A i \in DOMAIN store.accounts :
        /\ store.accounts[i].index = i - 1
        /\ store.accounts[i].derivationPath = deriveAccount(i - 1).derivationPath

\* C33: the bridge forwards to the agent the requests the provider posts and
\* nothing else: no MULTISUB_RESPONSE and no MULTISUB_SPOOF_CONFIG_UPDATE that
\* the bridge posted itself comes back to the agent as a message, so that the
\* traffic of a request ends with its response.
C33_OwnPostsNotForwarded ==
    \A x \in agentInbox : x.type \notin { "RESPONSE", "SPOOF_CONFIG_UPDATE" }

\* LOCK_WALLET has completed and nothing has unlocked since: the session is
\* removed and the stored state says locked
LockCompleted == ag.session = NoSession /\ ag.state.isLocked

\* C34: once LOCK_WALLET has completed the wallet instance stays null until an
\* unlock: while the wallet is locked the only step that installs the secret
\* as the wallet instance is the one of an UNLOCK_WALLET handler, never the
\* restoring step of ensureWalletInstance in a handler that was under way.
C34_LockedStaysLocked ==
    [][( /\ LockCompleted
         /\ ag.walletInstance = NoSecret
         /\ ag'.walletInstance # NoSecret )
          => \E s \in Slots : /\ threads[s].type = "UNLOCK_WALLET"
                              /\ threads[s].pc = "fromMnemonic"
                              /\ threads'[s].pc # "fromMnemonic"
      ]_vars

(***************************************************************************)
(* SpecForged: the page runs a second script, which posts messages on the  *)
(* window as the bridge does.                                              *)
(***************************************************************************)
\* An address no account of the wallet has
AttackerAddr == "0xEE"

\* window.postMessage({type: 'MULTISUB_RESPONSE', id, response}) by that script
ForgedResponse(id) ==
    Msg(Prefix, "RESPONSE", id, NoPayload, Ok(DataAccounts(AttackerAddr)), SpoofOff)

\* The ids the script guesses: the provider counts its requests from 1
GuessedIds == 1..3

Forge(id) ==
    /\ nDispatched < MaxDispatched
    /\ windowMsgs = << >>
    /\ windowMsgs' = << ForgedResponse(id) >>
    /\ UNCHANGED << p, agentInbox, ag, nRequests, nUi, nDispatched >>
    /\ UNCHANGED << agentVars, twinVars, wrapVars >>

NextForged ==
    \/ Request("eth_requestAccounts", 0, NoHex, MaxRequests)
    \/ WindowDispatch
    \/ \E x \in agentInbox : AgentRespond(x, TRUE)
    \/ \E t \in p.timers : Timeout(t)
    \/ \E id \in GuessedIds : Forge(id)

SpecForged == InitProvider /\ [][NextForged]_vars

\* C35: a pending request is settled only by the response the bridge produced
\* for it: no call of sendMessage is resolved with what a message of another
\* script of the page carried under a guessed id, and the provider never takes
\* that script's address for the wallet's.
C35_OnlyBridgeSettles ==
    /\ \A k \in Calls : \A i \in DOMAIN p.settled[k] :
          p.settled[k][i].data # DataAccounts(AttackerAddr)
    /\ p.realAddress # AttackerAddr

\* C37: the transaction that sendTransaction broadcasts is signed with the key
\* of the account whose address is its from, and the nonce it carries, when
\* the agent fetched it, was fetched for that account; so it is for a payload
\* with a path of its own.
C37_SignedByFromAccount ==
    send.broadcast # << >>
       => LET signedBy == AddressBytes(AddressOfKey(send.signer.key))
              sent == send.broadcast[Len(send.broadcast)]
          IN /\ sent.from = signedBy
             /\ send.nonceOf # Undefined => send.nonceOf = signedBy

(***************************************************************************)
(* SpecSigning: one call of signMessage, signTransaction or                *)
(* sendTransaction, with the signer it makes as an object: made, called in *)
(* the try block and cleared in the finally block.                         *)
(***************************************************************************)
\* A step of a handler: the call and the signers
Signing(s, h) == [send |-> s, hid |-> h]

\* The signer of the call is given the call; device says whether the Ledger
\* could be opened and whether it answered
signerCalled(s, h, call, device) ==
    IF s.signer.type = LEDGER
    THEN LedgerSigner_call(h, Len(h.ledger), call, device.created, device.replied)
    ELSE SoftwareSigner_call(h, call)

\* for a mutant: the signer is cleared only when nothing was thrown
finallyClear_OnSuccess(s, h) ==
    IF s.error # "" THEN Signing([s EXCEPT !.pc = "failed"], h)
    ELSE Signing([s EXCEPT !.pc = "done", !.cleared = TRUE],
                 IF s.signer.type = LEDGER THEN LedgerSigner_clear(h, Len(h.ledger))
                 ELSE SoftwareSigner_clear(h))

\* finally { signer.clear() }, and the handler returns or throws
finallyClear(s, h) ==
    Signing([s EXCEPT !.pc = IF s.error # "" THEN "failed" ELSE "done",
                      !.cleared = TRUE],
            IF s.signer.type = LEDGER THEN LedgerSigner_clear(h, Len(h.ledger))
            ELSE SoftwareSigner_clear(h))

\* signMessage, signTransaction and sendTransaction from one await to the
\* next: the checks, the signer, the try block, the finally block
signingStep(s, h, a, env, device) ==
    LET path == IF s.path # "" THEN s.path ELSE getCurrentAccountPath(a)
        Throw(message) == [s EXCEPT !.pc = "finally", !.error = message]
    IN
    CASE s.pc = "enter" ->
            \* signMessage and signTransaction before the signer
            IF getCurrentAccount(a) = NoAddr
            THEN Signing(SendFailed(s, "No account selected"), h)
            ELSE IF path = "" THEN Signing(SendFailed(s, "No derivation path found"), h)
            ELSE Signing([s EXCEPT !.pc = "sign"], h)
      [] s.pc = "sign" ->
            LET signer == createSendSigner(a, path) IN
            IF signer = NoSigner THEN Signing(SendFailed(s, "Wallet is locked"), h)
            ELSE Signing([s EXCEPT !.pc = "try", !.signer = signer],
                         IF signer.type = LEDGER THEN createLedgerSigner(h, path)
                         ELSE [h EXCEPT !.software = SoftwareSigner(signer.key)])
      [] s.pc = "try" /\ s.handler = "signMessage" ->
            IF s.typed = "invalid"
            THEN Signing(Throw("Invalid EIP-712 typed data format"), h)
            ELSE LET g == signerCalled(s, h, IF s.typed = "no" THEN "signMessage"
                                             ELSE "signTypedData", device)
                 IN Signing(IF g.last.ok THEN [s EXCEPT !.pc = "finally"]
                            ELSE Throw("signing failed"), g)
      [] s.pc = "try" /\ s.handler = "signTransaction" ->
            IF getCurrentNetwork(a) = NoChain
            THEN Signing(Throw("No network selected"), h)
            ELSE LET transaction == [s.payload EXCEPT
                                        !.chainId = Num(getCurrentNetwork(a))]
                     g == signerCalled(s, h, "signTransaction", device)
                 IN Signing(IF g.last.ok /\ signTransaction_accepts(s.signer, transaction)
                            THEN [s EXCEPT !.pc = "finally",
                                           !.signedTx = Append(@, transaction)]
                            ELSE Throw("signing failed"), g)
      [] s.pc = "try" ->
            LET g == signerCalled(s, h, "signTransaction", device) IN
            Signing(IF g.last.ok /\ signTransaction_accepts(s.signer, s.tx)
                    THEN [s EXCEPT !.pc = "broadcast", !.signedTx = Append(@, s.tx),
                                   !.log = Append(@, "sign")]
                    ELSE Throw("signing failed"), g)
      [] s.pc = "broadcast" ->
            Signing(IF env.rpc.ok
                    THEN [s EXCEPT !.pc = "finally",
                                   !.broadcast = Append(@, s.signedTx[Len(s.signedTx)]),
                                   !.log = Append(@, "broadcast")]
                    ELSE Throw("broadcast failed"), h)
      [] s.pc = "finally" -> finallyClear(s, h)
      [] OTHER ->
            \* sendTransaction before the signer
            Signing(sendTransactionStep(s, a, env), h)

\* The calls: a message to sign, as text or as typed data, well formed or
\* not; a transaction to sign; a transaction to send, with a path or none
SigningCalls ==
    { [NoSend EXCEPT !.pc = "enter", !.handler = "signMessage", !.typed = typed,
                     !.path = path] :
         typed \in { "no", "valid", "invalid" },
         path \in { "", AccountsOf("mnemonic")[2].derivationPath } }
    \cup { [NoSend EXCEPT !.pc = IF handler = "signTransaction" THEN "enter" ELSE "start",
                          !.handler = handler, !.origin = "ui",
                          !.payload = t, !.tx = t, !.path = path] :
              handler \in { "signTransaction", "sendTransaction" },
              t \in UiTransactions \cup PathTransactions,
              path \in { "", AccountsOf("mnemonic")[2].derivationPath } }

InitSigning ==
    /\ ag \in { AgentUnlocked, AgentLedger, AgentPrivateKey, AgentLocked("mnemonic"),
                [AgentUnlocked EXCEPT !.networks = << >>] }
    /\ send \in SigningCalls
    /\ hid = NoHid
    /\ store = NoStore
    /\ usb = NoUsb
    /\ wrap = NoWrap
    /\ p = NewProvider
    /\ windowMsgs = << >>
    /\ agentInbox = {}
    /\ nRequests = 0
    /\ nUi = 0
    /\ nDispatched = 0
    /\ threads = [s \in Slots |-> IdleThread]
    /\ answered = {}
    /\ pageSeen = {}
    /\ restarted = FALSE
    /\ nMsgs = 0
    /\ twin = Run(NewProvider, AgentUnlocked)
    /\ nTwin = 0

\* The handler goes on to its next await, or ends
SigningStep ==
    /\ send.pc \notin { "idle", "done", "failed" }
    /\ \E env \in Envs(send), created \in BOOLEAN, replied \in BOOLEAN :
          LET r == signingStep(send, hid, ag, env,
                               [created |-> created, replied |-> replied])
          IN send' = r.send /\ hid' = r.hid
    /\ UNCHANGED << providerVars, ag, agentVars, twinVars, wrap, lateVars >>

\* transport.close() is done and the disconnect that clear() started goes on
SigningDisconnected ==
    /\ \E i \in DOMAIN hid.ledger :
          hid.ledger[i].closing /\ hid' = disconnect(hid, i)
    /\ UNCHANGED << providerVars, ag, agentVars, twinVars, wrap, send, lateVars >>

NextSigning == SigningStep \/ SigningDisconnected

SpecSigning == InitSigning /\ [][NextSigning]_vars

\* C38: when a handler has returned or thrown, every signer it made has been
\* cleared, whether signing and broadcasting succeeded or threw, and no call
\* of a signer comes after its clear().
C38_SignerClearedAtEnd ==
    /\ send.pc \in { "done", "failed" }
          => /\ \A i \in DOMAIN hid.ledger : hid.ledger[i].cleared
             /\ send.signer.type = SOFTWARE => hid.software.cleared
             /\ send.signer # NoSigner => send.cleared
    /\ ~hid.last.afterClear

\* C38: a handler ended with an exception of the signing, and its signer is
\* cleared
C38_ClearedAfterThrow ==
    /\ send.pc = "failed"
    /\ send.error = "signing failed"
    /\ send.signer.type = LEDGER
    /\ Len(hid.ledger) = 1 /\ hid.ledger[1].cleared

(***************************************************************************)
(* SpecDisplay: the address the provider shows, from the page's load with  *)
(* any spoof configuration stored: the fetch of initialize(), the updates  *)
(* the bridge posts for changes of the stored configuration (a reset of    *)
(* the wallet removes it) and eth_requestAccounts.                         *)
(***************************************************************************)
\* eth_requestAccounts calls of the page, messages the window dispatches and
\* actions the user takes in the wallet UI
MaxDisplayCalls == 1
MaxDisplayDispatched == 6
MaxDisplayUi == 2

InitDisplay ==
    /\ p = ConstructedProvider.p
    /\ windowMsgs = PostAll(<< >>, ConstructedProvider.post)
    /\ agentInbox = {}
    /\ \E c \in SpoofConfigs : ag = [AgentUnlocked EXCEPT !.addressSpoof = c]
    /\ nRequests = 0
    /\ nUi = 0
    /\ nDispatched = 0
    /\ threads = [s \in Slots |-> IdleThread]
    /\ answered = {}
    /\ pageSeen = {}
    /\ restarted = FALSE
    /\ nMsgs = 0
    /\ twin = Run(NewProvider, AgentUnlocked)
    /\ nTwin = 0
    /\ wrap = NoWrap
    /\ send = NoSend
    /\ hid = NoHid
    /\ store = NoStore
    /\ usb = NoUsb

NextDisplay ==
    \/ Request("eth_requestAccounts", 0, NoHex, MaxDisplayCalls)
    \/ WindowDispatchUpTo(MaxDisplayDispatched)
    \/ \E x \in agentInbox : AgentRespond(x, TRUE)
    \/ \E c \in SpoofConfigs : UiUpTo("SET_ADDRESS_SPOOF_CONFIG", 0, c, MaxDisplayUi)
    \/ UiUpTo("RESET_WALLET", 0, SpoofOff, MaxDisplayUi)
    \/ UiUpTo("CREATE_WALLET", 0, SpoofOff, MaxDisplayUi)

SpecDisplay == InitDisplay /\ [][NextDisplay]_vars

\* initialize() has had the answers to both of its fetches
InitializeFinished ==
    /\ \E k \in Calls : p.calls[k].type = "GET_CURRENT_NETWORK" /\ ~IsPending(k)
    /\ \A k \in Calls :
          p.calls[k].type = "GET_ADDRESS_SPOOF_CONFIG" => ~IsPending(k)

\* C39: once initialize() has finished and a real address is known,
\* selectedAddress is the spoofed address if the provider's configuration is
\* enabled with an address, and the real address otherwise; and every
\* eth_requestAccounts that the agent answered with accounts returns a list
\* (request() is not rejected), whatever updates came before it.
C39_DisplayedAddressFollowsConfig ==
    /\ (InitializeFinished /\ p.realAddress # NoAddr)
          => /\ p.spoofConfig # NoSpoofConfig
             /\ p.selectedAddress = getDisplayAddress(p)
    /\ \A k \in Calls :
          (/\ p.calls[k].type = "REQUEST_ACCOUNTS"
           /\ Len(Settlements(k)) = 1
           /\ Settlements(k)[1].how = "resolve")
             => p.rejected[k] = NoCode

(***************************************************************************)
(* SpecLedger: calls on one LedgerSigner, made while earlier ones are      *)
(* still waiting for the device.                                           *)
(***************************************************************************)
InitLedger ==
    /\ usb = NoUsb
    /\ hid = NoHid
    /\ store = NoStore
    /\ send = NoSend
    /\ wrap = NoWrap
    /\ p = NewProvider
    /\ windowMsgs = << >>
    /\ agentInbox = {}
    /\ ag = AgentLedger
    /\ nRequests = 0
    /\ nUi = 0
    /\ nDispatched = 0
    /\ threads = [s \in Slots |-> IdleThread]
    /\ answered = {}
    /\ pageSeen = {}
    /\ restarted = FALSE
    /\ nMsgs = 0
    /\ twin = Run(NewProvider, AgentUnlocked)
    /\ nTwin = 0

UsbUnchanged ==
    UNCHANGED << providerVars, ag, agentVars, twinVars, wrap, send, hid, store >>

\* A signing call is made on the signer
UsbSign ==
    /\ usb.nCalls < MaxUsbCalls
    /\ LET c == usb.nCalls + 1 IN
       usb' = connect_start([usb EXCEPT !.nCalls = c,
                                        !.calls[c] = UsbCall("signMessage", "start")], c)
    /\ UsbUnchanged

\* disconnect() is called
UsbDisconnect ==
    /\ usb.nCalls < MaxUsbCalls
    /\ LET c == usb.nCalls + 1 IN
       usb' = disconnect_start([usb EXCEPT !.nCalls = c,
                                           !.calls[c] = UsbCall("disconnect", "start")], c)
    /\ UsbUnchanged

\* clear() is called
UsbClear ==
    /\ usb.nCalls < MaxUsbCalls
    /\ LET c == usb.nCalls + 1 IN
       usb' = clear_start([usb EXCEPT !.nCalls = c,
                                      !.calls[c] = UsbCall("clear", "start")], c)
    /\ UsbUnchanged

\* The promise a call waits for is settled
UsbResume(c) ==
    /\ c \in 1..usb.nCalls
    /\ \/ /\ usb.calls[c].pc = "create"
          /\ \E created \in BOOLEAN : usb' = connect_resume(usb, c, created)
       \/ /\ usb.calls[c].pc = "device"
          /\ usb' = device_resume(usb, c)
       \/ /\ usb.calls[c].pc = "close"
          /\ usb' = disconnect_resume(usb, c)
    /\ UsbUnchanged

NextLedger ==
    \/ UsbSign
    \/ UsbDisconnect
    \/ UsbClear
    \/ \E c \in 1..MaxUsbCalls : UsbResume(c)

SpecLedger == InitLedger /\ [][NextLedger]_vars

\* No call is under way and the call made last was clear() or disconnect()
UsbClearedAndQuiet ==
    /\ usb.nCalls > 0
    /\ usb.calls[usb.nCalls].kind \in { "clear", "disconnect" }
    /\ \A c \in 1..usb.nCalls : usb.calls[c].pc = "done"

\* C40: close() is called at most once on a transport; at most one transport
\* is open at a time; and when clear() or disconnect() was the last call and
\* every call has ended, every transport that was opened has been closed once.
C40_TransportClosedOnce ==
    /\ \A t \in DOMAIN usb.transports : usb.transports[t].closes <= 1
    /\ Cardinality({ t \in DOMAIN usb.transports : usb.transports[t].closes = 0 }) <= 1
    /\ UsbClearedAndQuiet
          => \A t \in DOMAIN usb.transports : usb.transports[t].closes = 1

====
